---- MODULE Spec2Model ----
(***************************************************************************)
(* The OAuth 1.0a request signer of scripts/netsuite-downloader.js         *)
(* (class NetSuiteDownloader): construction and validateConfig, the        *)
(* percent-encoder encodeRFC3986, generateOAuthHeader and its two callers  *)
(* makeNetSuiteRequest and testAuth with the handlers of their requests,   *)
(* downloadTodaysDueDateLogs, and the daily run of scripts/run-analysis.js *)
(* (class DueDateLogAnalyzer) that calls it.                               *)
(*                                                                         *)
(* A JavaScript string is a sequence of UTF-16 code units, each a natural  *)
(* number; the empty string is << >>.  Library functions the signer calls *)
(* (encodeURIComponent, Array.prototype.sort, new URL, Buffer hex and      *)
(* base64) are operators that compute what the library computes.           *)
(***************************************************************************)
EXTENDS Integers, Sequences, FiniteSets, TLC

(***************************************************************************)
(* The state.                                                              *)
(***************************************************************************)
VARIABLES
    config,       \* the configuration object handed to the constructor
    downloader,   \* "none", "ready" (constructed) or "rejected" (constructor threw)
    thrown,       \* what the last operation threw (or rejected with), or NoError
    call,         \* the last generateOAuthHeader call: its locals and result
    caller,       \* which operation made that call
    encodeCalls,  \* encodeRFC3986 calls made so far
    hmacCalls,    \* HMAC computations made so far
    requests,     \* the HTTP requests handed to https.request, in order
    nCalls,       \* operations called on the downloader so far
    history,      \* every generateOAuthHeader call so far, in order: who made it,
                  \* the clock and random readings it took, the request it was
                  \* made for (0: none), and what call held after it
    net,          \* for each request of requests: how far its response has come
    ops,          \* the promises of the asynchronous operations started so far
    disk,         \* the directories that exist and the files written
    analysed,     \* the arguments of the geminiAnalyzer.analyzeLogFiles calls made
    exit          \* whether the process has exited, and its exit code

\* the least element of a non-empty set of integers
Min(S) == CHOOSE i \in S : \A j \in S : i <= j

(***************************************************************************)
(* String literals.  Ascii lists the printable characters in code order,   *)
(* code 32 first; the three characters a TLA+ string cannot hold (codes    *)
(* 34, 92 and 96) are blanks there and are never looked up.                *)
(***************************************************************************)
Ascii == " ! #$%&'()*+,-./0123456789:;<=>?@ABCDEFGHIJKLMNOPQRSTUVWXYZ[ ]^_ abcdefghijklmnopqrstuvwxyz{|}~"

\* the code of each character of Ascii
AsciiCode ==
    [c \in {SubSeq(Ascii, i, i) : i \in 1..Len(Ascii)} |->
        31 + Min({i \in 1..Len(Ascii) : SubSeq(Ascii, i, i) = c})]

charCodeAt(c) == AsciiCode[c]

\* the code-unit sequence of a literal
Str(s) == [i \in 1..Len(s) |-> charCodeAt(SubSeq(s, i, i))]

DQUOTE == <<34>>

RECURSIVE ConcatRange(_, _, _)
\* ss[lo] + ... + ss[hi], halving the range
ConcatRange(ss, lo, hi) ==
    IF lo > hi THEN << >>
    ELSE IF lo = hi THEN ss[lo]
    ELSE LET mid == (lo + hi) \div 2
         IN  ConcatRange(ss, lo, mid) \o ConcatRange(ss, mid + 1, hi)

\* ss[1] + ss[2] + ... (template literals and string +)
Concat(ss) == ConcatRange(ss, 1, Len(ss))

\* Array.prototype.join
join(arr, sep) ==
    IF Len(arr) = 0 THEN << >>
    ELSE Concat([i \in 1..(2 * Len(arr) - 1) |->
                    IF i % 2 = 1 THEN arr[(i + 1) \div 2] ELSE sep])

(***************************************************************************)
(* Character classes.                                                      *)
(***************************************************************************)
IsUpper(c) == c >= 65 /\ c <= 90
IsLower(c) == c >= 97 /\ c <= 122
IsDigit(c) == c >= 48 /\ c <= 57
IsAlnum(c) == IsUpper(c) \/ IsLower(c) \/ IsDigit(c)

\* ECMAScript uriUnescaped: alphanumerics and - _ . ! ~ * ' ( )
UriUnescaped(c) == IsAlnum(c) \/ c \in {45, 95, 46, 33, 126, 42, 39, 40, 41}

IsHighSurrogate(c) == c >= 55296 /\ c <= 56319
IsLowSurrogate(c) == c >= 56320 /\ c <= 57343

(***************************************************************************)
(* Number.prototype.toString(16), String(n), toUpperCase, toLowerCase.     *)
(***************************************************************************)
HexDigitsLower == <<48, 49, 50, 51, 52, 53, 54, 55, 56, 57, 97, 98, 99, 100, 101, 102>>

RECURSIVE toString16(_)
toString16(n) ==
    IF n < 16 THEN <<HexDigitsLower[n + 1]>>
    ELSE toString16(n \div 16) \o <<HexDigitsLower[(n % 16) + 1]>>

toUpperCase(s) ==
    [i \in 1..Len(s) |-> IF IsLower(s[i]) THEN s[i] - 32 ELSE s[i]]

toLowerCase(s) ==
    [i \in 1..Len(s) |-> IF IsUpper(s[i]) THEN s[i] + 32 ELSE s[i]]

RECURSIVE toString10(_)
\* String(n) of a non-negative integer
toString10(n) ==
    IF n < 10 THEN <<48 + n>>
    ELSE toString10(n \div 10) \o <<48 + (n % 10)>>

(***************************************************************************)
(* encodeURIComponent (ECMAScript Encode with the uriUnescaped set).       *)
(***************************************************************************)
\* the code point that starts at position k, and how many code units it takes
CodePointAt(s, k) ==
    IF IsHighSurrogate(s[k]) /\ k < Len(s) /\ IsLowSurrogate(s[k + 1])
    THEN [cp |-> (s[k] - 55296) * 1024 + (s[k + 1] - 56320) + 65536, units |-> 2]
    ELSE [cp |-> s[k], units |-> 1]

\* the UTF-8 octets of a code point
Utf8(cp) ==
    IF cp < 128 THEN <<cp>>
    ELSE IF cp < 2048 THEN <<192 + (cp \div 64), 128 + (cp % 64)>>
    ELSE IF cp < 65536
         THEN <<224 + (cp \div 4096), 128 + ((cp \div 64) % 64), 128 + (cp % 64)>>
    ELSE <<240 + (cp \div 262144), 128 + ((cp \div 4096) % 64),
           128 + ((cp \div 64) % 64), 128 + (cp % 64)>>

HexDigitsUpper == <<48, 49, 50, 51, 52, 53, 54, 55, 56, 57, 65, 66, 67, 68, 69, 70>>

\* "%XX" of one octet
PercentOctet(b) == <<37, HexDigitsUpper[(b \div 16) + 1], HexDigitsUpper[(b % 16) + 1]>>

PercentOctets(bs) ==
    Concat([i \in 1..Len(bs) |-> PercentOctet(bs[i])])

\* a surrogate that is not half of a pair: encodeURIComponent throws
\* URIError on such a string
HasLoneSurrogate(s) ==
    \E k \in 1..Len(s) :
        \/ IsLowSurrogate(s[k]) /\ (k = 1 \/ ~IsHighSurrogate(s[k - 1]))
        \/ IsHighSurrogate(s[k]) /\ (k = Len(s) \/ ~IsLowSurrogate(s[k + 1]))

URIError == <<-1>>

\* what the code unit at position k contributes to the result; the second
\* half of a pair was consumed with the first
EncodeAt(s, k) ==
    IF UriUnescaped(s[k]) THEN <<s[k]>>
    ELSE IF IsLowSurrogate(s[k]) THEN << >>
    ELSE PercentOctets(Utf8(CodePointAt(s, k).cp))

encodeURIComponent(s) ==
    IF HasLoneSurrogate(s) THEN URIError
    ELSE Concat([k \in 1..Len(s) |-> EncodeAt(s, k)])

(***************************************************************************)
(* encodeRFC3986: encodeURIComponent, then every ! ' ( ) * of the result   *)
(* replaced by '%' + its char code in upper-case hex.                      *)
(***************************************************************************)
\* .replace(/[!'()*]/g, c => '%' + c.charCodeAt(0).toString(16).toUpperCase())
ReplaceSubDelims(s) ==
    Concat([k \in 1..Len(s) |->
               IF s[k] \in {33, 39, 40, 41, 42}
               THEN <<37>> \o toUpperCase(toString16(s[k]))
               ELSE <<s[k]>>])

\* the encoder without the replacement step
encodeRFC3986_NoReplace(str) == encodeURIComponent(str)

encodeRFC3986(str) ==
    LET e == encodeURIComponent(str)
    IN  IF e = URIError THEN URIError ELSE ReplaceSubDelims(e)

(***************************************************************************)
(* Array.prototype.sort() with no comparator: ascending order of the       *)
(* strings' UTF-16 code units.                                             *)
(***************************************************************************)
\* a < b as JavaScript compares two strings: by the first code unit that
\* differs, a proper prefix first
LessStr(a, b) ==
    LET diffs == {i \in 1..(IF Len(a) < Len(b) THEN Len(a) ELSE Len(b)) : a[i] # b[i]}
    IN  IF diffs = {} THEN Len(a) < Len(b)
        ELSE a[Min(diffs)] < b[Min(diffs)]

\* the strings of the set keys in ascending order: the i-th is the one
\* with i - 1 smaller strings in the set
sort(S) ==
    [i \in 1..Cardinality(S) |->
        CHOOSE a \in S : Cardinality({b \in S : LessStr(b, a)}) = i - 1]

(***************************************************************************)
(* new URL(url), for absolute http(s) URLs of the shape                    *)
(*   scheme "://" host [":" port] [path] ["?" query] ["#" fragment]        *)
(* whose host and path need no normalisation.  A string without "://", a   *)
(* scheme other than http(s), an empty host or a host with a forbidden     *)
(* host code point makes the constructor throw TypeError (Invalid URL).    *)
(***************************************************************************)
\* the first position >= k of s that holds a code unit of cs, or Len(s) + 1
IndexOfAny(s, cs, k) ==
    LET hits == {i \in k..Len(s) : s[i] \in cs}
    IN  IF hits = {} THEN Len(s) + 1 ELSE Min(hits)

\* String.prototype.indexOf(sub, k), 1-based; 0 when sub does not occur
IndexOf(s, sub, k) ==
    LET hits == {i \in k..(Len(s) - Len(sub) + 1) : SubSeq(s, i, i + Len(sub) - 1) = sub}
    IN  IF hits = {} THEN 0 ELSE Min(hits)

InvalidURL == [invalid |-> TRUE]

\* the default port of a special scheme
DefaultPort(scheme) ==
    IF scheme = Str("https") THEN Str("443")
    ELSE IF scheme = Str("http") THEN Str("80")
    ELSE << >>

\* WHATWG forbidden host code points, and '%', forbidden in a domain
ForbiddenHostCodePoint(c) ==
    c <= 32 \/ c = 127 \/ c \in {35, 37, 47, 58, 60, 62, 63, 64, 91, 92, 93, 94, 124}

\* the parts of url after "scheme://": the authority ends before aEnd, the
\* path before pEnd, the query before qEnd, and the fragment follows
UrlParts(url, scheme, aStart, aEnd, pEnd, qEnd) ==
    LET auth     == SubSeq(url, aStart, aEnd - 1)
        colon    == IndexOfAny(auth, {58}, 1)
        hostname == toLowerCase(SubSeq(auth, 1, colon - 1))
        rawPort  == SubSeq(auth, colon + 1, Len(auth))
        rawPath  == SubSeq(url, aEnd, pEnd - 1)
    IN  IF \/ hostname = << >>
           \/ scheme \notin {Str("https"), Str("http")}
           \/ \E i \in 1..Len(hostname) : ForbiddenHostCodePoint(hostname[i])
        THEN InvalidURL
        ELSE [invalid  |-> FALSE,
              protocol |-> scheme \o Str(":"),
              host     |-> IF rawPort = << >> \/ rawPort = DefaultPort(scheme)
                           THEN hostname
                           ELSE hostname \o Str(":") \o rawPort,
              pathname |-> IF rawPath = << >> THEN Str("/") ELSE rawPath,
              query    |-> IF pEnd <= Len(url) /\ url[pEnd] = 63
                           THEN SubSeq(url, pEnd + 1, qEnd - 1) ELSE << >>,
              hash     |-> SubSeq(url, qEnd + 1, Len(url))]

URL(url) ==
    LET sep  == IndexOf(url, Str("://"), 1)
        aEnd == IndexOfAny(url, {47, 63, 35}, sep + 3)
        pEnd == IndexOfAny(url, {63, 35}, aEnd)
        qEnd == IndexOfAny(url, {35}, pEnd)
    IN  IF sep <= 1 THEN InvalidURL
        ELSE UrlParts(url, toLowerCase(SubSeq(url, 1, sep - 1)), sep + 3, aEnd, pEnd, qEnd)

(***************************************************************************)
(* urlObj.searchParams: the application/x-www-form-urlencoded parser.      *)
(***************************************************************************)
\* String.prototype.split on one code unit: the pieces between the
\* occurrences of c
split(s, c) ==
    LET cuts == {0} \cup {j \in 1..Len(s) : s[j] = c} \cup {Len(s) + 1}
    IN  [n \in 1..(Cardinality(cuts) - 1) |->
            LET from == CHOOSE a \in cuts : Cardinality({b \in cuts : b < a}) = n - 1
                to   == Min({b \in cuts : b > from})
            IN  SubSeq(s, from + 1, to - 1)]

HexValue(c) ==
    IF IsDigit(c) THEN c - 48
    ELSE IF c >= 65 /\ c <= 70 THEN c - 55
    ELSE IF c >= 97 /\ c <= 102 THEN c - 87
    ELSE -1

\* position k of s starts an escape %XX
EscapeAt(s, k) ==
    k >= 1 /\ k + 2 <= Len(s) /\ s[k] = 37
    /\ HexValue(s[k + 1]) >= 0 /\ HexValue(s[k + 2]) >= 0

\* the octets of s with every %XX replaced by the octet XX
PercentDecodeBytes(s) ==
    Concat([k \in 1..Len(s) |->
               IF EscapeAt(s, k) THEN <<16 * HexValue(s[k + 1]) + HexValue(s[k + 2])>>
               ELSE IF EscapeAt(s, k - 1) \/ (EscapeAt(s, k - 2) /\ ~EscapeAt(s, k - 1))
                    THEN << >>
               ELSE Utf8(s[k])])

\* octet k of bs is one of lo..hi
OctetIn(bs, k, lo, hi) == k >= 1 /\ k <= Len(bs) /\ bs[k] >= lo /\ bs[k] <= hi

\* octet k of bs leads a well-formed sequence of two, three or four octets
LeadsTwo(bs, k) == OctetIn(bs, k, 194, 223) /\ OctetIn(bs, k + 1, 128, 191)

LeadsThree(bs, k) ==
    /\ \/ OctetIn(bs, k, 224, 224) /\ OctetIn(bs, k + 1, 160, 191)
       \/ OctetIn(bs, k, 225, 236) /\ OctetIn(bs, k + 1, 128, 191)
       \/ OctetIn(bs, k, 237, 237) /\ OctetIn(bs, k + 1, 128, 159)
       \/ OctetIn(bs, k, 238, 239) /\ OctetIn(bs, k + 1, 128, 191)
    /\ OctetIn(bs, k + 2, 128, 191)

LeadsFour(bs, k) ==
    /\ \/ OctetIn(bs, k, 240, 240) /\ OctetIn(bs, k + 1, 144, 191)
       \/ OctetIn(bs, k, 241, 243) /\ OctetIn(bs, k + 1, 128, 191)
       \/ OctetIn(bs, k, 244, 244) /\ OctetIn(bs, k + 1, 128, 143)
    /\ OctetIn(bs, k + 2, 128, 191)
    /\ OctetIn(bs, k + 3, 128, 191)

\* octet k of bs is a later octet of a well-formed sequence
Continues(bs, k) ==
    \/ LeadsTwo(bs, k - 1) \/ LeadsThree(bs, k - 1) \/ LeadsFour(bs, k - 1)
    \/ LeadsThree(bs, k - 2) \/ LeadsFour(bs, k - 2)
    \/ LeadsFour(bs, k - 3)

\* the UTF-16 code units of a code point
Utf16(cp) ==
    IF cp < 65536 THEN <<cp>>
    ELSE <<55296 + ((cp - 65536) \div 1024), 56320 + ((cp - 65536) % 1024)>>

\* UTF-8 decode: a well-formed sequence gives its code point, an octet
\* outside every well-formed sequence gives U+FFFD
Utf8Decode(bs) ==
    Concat([k \in 1..Len(bs) |->
               IF bs[k] < 128 THEN <<bs[k]>>
               ELSE IF LeadsTwo(bs, k) THEN <<(bs[k] - 192) * 64 + (bs[k + 1] - 128)>>
               ELSE IF LeadsThree(bs, k)
                    THEN <<(bs[k] - 224) * 4096 + (bs[k + 1] - 128) * 64
                           + (bs[k + 2] - 128)>>
               ELSE IF LeadsFour(bs, k)
                    THEN Utf16((bs[k] - 240) * 262144 + (bs[k + 1] - 128) * 4096
                               + (bs[k + 2] - 128) * 64 + (bs[k + 3] - 128))
               ELSE IF Continues(bs, k) THEN << >>
               ELSE <<65533>>])

\* one name or value of a query string: '+' is a space, then percent-decoded
FormDecode(s) ==
    Utf8Decode(PercentDecodeBytes([i \in 1..Len(s) |-> IF s[i] = 43 THEN 32 ELSE s[i]]))

\* the <<name, value>> pair of one non-empty piece of a query string
FormPair(p) ==
    LET eq == IndexOfAny(p, {61}, 1)
    IN  <<FormDecode(SubSeq(p, 1, eq - 1)), FormDecode(SubSeq(p, eq + 1, Len(p)))>>

\* the <<name, value>> pairs of a query string, in order
searchParams(urlObj) ==
    LET pieces == SelectSeq(split(urlObj.query, 38), LAMBDA p : p # << >>)
    IN  [i \in 1..Len(pieces) |-> FormPair(pieces[i])]

(***************************************************************************)
(* crypto: randomBytes(n).toString('hex'), and                             *)
(* createHmac('sha256', key).update(msg).digest('base64').                 *)
(***************************************************************************)
\* Buffer.prototype.toString('hex'): two lower-case digits per octet
toHex(bs) ==
    Concat([i \in 1..Len(bs) |->
               <<HexDigitsLower[(bs[i] \div 16) + 1], HexDigitsLower[(bs[i] % 16) + 1]>>])

\* A-Z a-z 0-9 + /
Base64Alphabet ==
    [i \in 1..64 |-> IF i <= 26 THEN 64 + i
                     ELSE IF i <= 52 THEN 70 + i
                     ELSE IF i <= 62 THEN i - 5
                     ELSE IF i = 63 THEN 43 ELSE 47]

\* the four characters of the g-th group of three octets of bs, '=' where
\* the group has no second or third octet
Base64Group(bs, g) ==
    LET b1 == bs[3 * g - 2]
        b2 == IF 3 * g - 1 <= Len(bs) THEN bs[3 * g - 1] ELSE 0
        b3 == IF 3 * g <= Len(bs) THEN bs[3 * g] ELSE 0
    IN  <<Base64Alphabet[(b1 \div 4) + 1],
          Base64Alphabet[((b1 % 4) * 16 + (b2 \div 16)) + 1],
          IF 3 * g - 1 <= Len(bs)
          THEN Base64Alphabet[((b2 % 16) * 4 + (b3 \div 64)) + 1] ELSE 61,
          IF 3 * g <= Len(bs) THEN Base64Alphabet[(b3 % 64) + 1] ELSE 61>>

\* Buffer.prototype.toString('base64'): standard alphabet, '=' padding
toBase64(bs) ==
    Concat([g \in 1..((Len(bs) + 2) \div 3) |-> Base64Group(bs, g)])

\* the length of a SHA-256 digest in octets
DigestLen == 32

RECURSIVE SumRange(_, _, _)
\* ns[lo] + ... + ns[hi] modulo 65521, halving the range
SumRange(ns, lo, hi) ==
    IF lo > hi THEN 0
    ELSE IF lo = hi THEN ns[lo] % 65521
    ELSE LET mid == (lo + hi) \div 2
         IN  (SumRange(ns, lo, mid) + SumRange(ns, mid + 1, hi)) % 65521

\* a position-weighted checksum of the code units of a string
Checksum(s) ==
    SumRange([i \in 1..Len(s) |-> ((i * 131 + 7) % 65521) * ((s[i] % 256) + 1)],
             1, Len(s))

\* The keyed digest.  SHA-256 itself is not computed: the digest is a
\* DigestLen-octet value fixed by the key and the message (a checksum of
\* both, expanded), which is all the signer relies on.
HmacSha256(key, msg) ==
    LET h    == (Checksum(key) * 31 + Checksum(msg)) % 65521
        step == 1 + (h \div 256)
    IN  [i \in 1..DigestLen |-> (h + i * step + i * i * 7) % 256]

(***************************************************************************)
(* Values and objects.  A configuration object is a function from property *)
(* names to strings; a property that is not set is not in its domain and   *)
(* reads as undefined.                                                     *)
(***************************************************************************)
undefined == <<-2>>

\* obj[key]
Prop(obj, key) == IF key \in DOMAIN obj THEN obj[key] ELSE undefined

\* ToString (String(v)), applied by encodeURIComponent to its argument
toStr(v) == IF v = undefined THEN Str("undefined") ELSE v

\* !v
Falsy(v) == v = undefined \/ v = << >>

\* { ...a, ...b }
Spread(a, b) ==
    [k \in (DOMAIN a) \cup (DOMAIN b) |-> IF k \in DOMAIN b THEN b[k] ELSE a[k]]

(***************************************************************************)
(* NetSuiteDownloader.validateConfig                                       *)
(***************************************************************************)
\* the list without the token secret
required_NoTokenSecret ==
    <<"accountId", "consumerKey", "consumerSecret", "tokenId", "restletUrl">>

required ==
    <<"accountId", "consumerKey", "consumerSecret", "tokenId", "tokenSecret", "restletUrl">>

\* required.filter(key => !this.config[key])
missing(cfg) == SelectSeq(required, LAMBDA key : Falsy(Prop(cfg, key)))

NoError == [threw |-> FALSE]

validateConfig(cfg) ==
    IF Len(missing(cfg)) > 0
    THEN [threw |-> TRUE, name |-> "Error",
          message |-> "Missing required configuration", missing |-> missing(cfg)]
    ELSE NoError

(***************************************************************************)
(* NetSuiteDownloader.generateOAuthHeader, step by step.                   *)
(***************************************************************************)
\* Math.floor(Date.now() / 1000), now in milliseconds
timestampOf(now) == now \div 1000

\* the nonce of the first call kept for the calls after it
nonceOf_Kept(rnd) == IF history # << >> THEN history[1].call.nonce ELSE toHex(rnd)

\* crypto.randomBytes(16).toString('hex')
nonceOf(rnd) == toHex(rnd)

\* the base URL with the query string kept
baseUrlOf_WithQuery(urlObj) ==
    Concat(<<urlObj.protocol, Str("//"), urlObj.host, urlObj.pathname,
             Str("?"), urlObj.query>>)

\* `${urlObj.protocol}//${urlObj.host}${urlObj.pathname}`
baseUrlOf(urlObj) == Concat(<<urlObj.protocol, Str("//"), urlObj.host, urlObj.pathname>>)

RECURSIVE forEachAssign(_, _)
\* urlObj.searchParams.forEach((value, key) => { queryParams[key] = value; })
forEachAssign(obj, pairs) ==
    IF pairs = << >> THEN obj
    ELSE LET key      == pairs[1][1]
             assigned == [k \in (DOMAIN obj) \cup {key} |->
                             IF k = key THEN pairs[1][2] ELSE obj[k]]
         IN  forEachAssign(assigned, Tail(pairs))

queryParamsOf(urlObj) == forEachAssign(<< >>, searchParams(urlObj))

\* the oauthParams literal; oauth_timestamp, a number in the code, is held as
\* the string every use of it converts it to
oauthParamsOf(cfg, nonce, timestamp) ==
    (Str("oauth_consumer_key") :> Prop(cfg, "consumerKey"))
    @@ (Str("oauth_nonce") :> nonce)
    @@ (Str("oauth_signature_method") :> Str("HMAC-SHA256"))
    @@ (Str("oauth_timestamp") :> toString10(timestamp))
    @@ (Str("oauth_token") :> Prop(cfg, "tokenId"))
    @@ (Str("oauth_version") :> Str("1.0"))

\* { ...oauthParams, ...queryParams }
allParamsOf(oauthParams, queryParams) == Spread(oauthParams, queryParams)

\* Object.keys(allParams).sort()
sortedKeys(allParams) == sort(DOMAIN allParams)

\* the value as it is, not percent-encoded
enc_Raw(v) == toStr(v)

\* the percent-encoder applied to a value: its toStr first
enc(v) == encodeRFC3986(toStr(v))

\* keys.map(key => `${enc(key)}=${enc(allParams[key])}`).join('&')
paramStringOf(keys, allParams) ==
    join([i \in 1..Len(keys) |->
             Concat(<<enc(keys[i]), Str("="), enc(allParams[keys[i]])>>)],
         Str("&"))

(***************************************************************************)
(* The parameter string of lines 54-59 on an object whose properties were  *)
(* created in a given order.  entries lists the <<key, value>> properties  *)
(* of allParams in creation order, every key once.                         *)
(***************************************************************************)
\* a key that is a canonical array index: Object.keys lists these first
IsArrayIndex(key) ==
    /\ key # << >>
    /\ Len(key) <= 9
    /\ \A i \in 1..Len(key) : IsDigit(key[i])
    /\ Len(key) > 1 => key[1] # 48

RECURSIVE toNumber(_)
\* the number an array index key stands for
toNumber(key) ==
    IF key = << >> THEN 0
    ELSE 10 * toNumber(SubSeq(key, 1, Len(key) - 1)) + (key[Len(key)] - 48)

\* Object.keys(obj): the array index keys in ascending numeric order, then
\* the other keys in the order the properties were created
objectKeys(entries) ==
    LET keys    == [i \in 1..Len(entries) |-> entries[i][1]]
        indices == {keys[i] : i \in {j \in 1..Len(keys) : IsArrayIndex(keys[j])}}
        others  == SelectSeq(keys, LAMBDA k : ~IsArrayIndex(k))
    IN  [i \in 1..Cardinality(indices) |->
            CHOOSE k \in indices :
                Cardinality({l \in indices : toNumber(l) < toNumber(k)}) = i - 1]
        \o others

\* sorted with key put in its place
insertSorted(key, sorted) ==
    LET before == SelectSeq(sorted, LAMBDA k : ~LessStr(key, k))
        after  == SelectSeq(sorted, LAMBDA k : LessStr(key, k))
    IN  before \o <<key>> \o after

RECURSIVE sortInto(_, _)
\* the keys sorted one after the other into done
sortInto(keys, done) ==
    IF keys = << >> THEN done
    ELSE sortInto(Tail(keys), insertSorted(Head(keys), done))

\* the keys left in the order Object.keys gave them
arraySort_None(keys) == keys

\* Array.prototype.sort() without a comparator: ascending by code units
arraySort(keys) == sortInto(keys, << >>)

\* Object.keys(allParams).sort().map(key => ...).join('&')
canonicalise(entries) ==
    LET allParams == [k \in {entries[i][1] : i \in 1..Len(entries)} |->
                         entries[CHOOSE i \in 1..Len(entries) : entries[i][1] = k][2]]
    IN  paramStringOf(arraySort(objectKeys(entries)), allParams)

\* `${method}&${enc(baseUrl)}&${enc(paramString)}`
baseStringOf(method, baseUrl, paramString) ==
    Concat(<<method, Str("&"), enc(baseUrl), Str("&"), enc(paramString)>>)

\* the signing key from the secrets as they are
signingKeyOf_Raw(cfg) ==
    Concat(<<toStr(Prop(cfg, "consumerSecret")), Str("&"), toStr(Prop(cfg, "tokenSecret"))>>)

\* `${enc(consumerSecret)}&${enc(tokenSecret)}`
signingKeyOf(cfg) ==
    Concat(<<enc(Prop(cfg, "consumerSecret")), Str("&"), enc(Prop(cfg, "tokenSecret"))>>)

\* one Hmac object kept and updated by every call: the base string of the
\* call before is still in it
signatureOf_SharedHmac(signingKey, baseString) ==
    toBase64(HmacSha256(signingKey,
                        (IF call.made /\ ~call.threw THEN call.baseString ELSE << >>)
                            \o baseString))

\* createHmac('sha256', signingKey).update(baseString).digest('base64')
signatureOf(signingKey, baseString) == toBase64(HmacSha256(signingKey, baseString))

\* name="value"
Quoted(name, value) == Concat(<<name, Str("="), DQUOTE, value, DQUOTE>>)

\* the header without the realm pair
authHeaderOf_NoRealm(cfg, nonce, signature, timestamp) ==
    Str("OAuth ") \o
    join(<<Quoted(Str("oauth_consumer_key"), enc(Prop(cfg, "consumerKey"))),
           Quoted(Str("oauth_nonce"), enc(nonce)),
           Quoted(Str("oauth_signature"), enc(signature)),
           Quoted(Str("oauth_signature_method"), Str("HMAC-SHA256")),
           Quoted(Str("oauth_timestamp"), enc(toString10(timestamp))),
           Quoted(Str("oauth_token"), enc(Prop(cfg, "tokenId"))),
           Quoted(Str("oauth_version"), Str("1.0"))>>,
         Str(", "))

\* the header with the oauth_* pairs in the order oauthParams lists them,
\* the signature last
authHeaderOf_Unsorted(cfg, nonce, signature, timestamp) ==
    Str("OAuth ") \o
    join(<<Quoted(Str("realm"), enc(Prop(cfg, "accountId"))),
           Quoted(Str("oauth_consumer_key"), enc(Prop(cfg, "consumerKey"))),
           Quoted(Str("oauth_token"), enc(Prop(cfg, "tokenId"))),
           Quoted(Str("oauth_signature_method"), Str("HMAC-SHA256")),
           Quoted(Str("oauth_timestamp"), enc(toString10(timestamp))),
           Quoted(Str("oauth_nonce"), enc(nonce)),
           Quoted(Str("oauth_version"), Str("1.0")),
           Quoted(Str("oauth_signature"), enc(signature))>>,
         Str(", "))

\* the signature kept on the downloader: the header takes the one the call
\* before left there
authHeaderOf_SharedSignature(cfg, nonce, signature, timestamp) ==
    Str("OAuth ") \o
    join(<<Quoted(Str("realm"), enc(Prop(cfg, "accountId"))),
           Quoted(Str("oauth_consumer_key"), enc(Prop(cfg, "consumerKey"))),
           Quoted(Str("oauth_nonce"), enc(nonce)),
           Quoted(Str("oauth_signature"),
                  enc(IF call.made /\ ~call.threw THEN call.signature ELSE signature)),
           Quoted(Str("oauth_signature_method"), Str("HMAC-SHA256")),
           Quoted(Str("oauth_timestamp"), enc(toString10(timestamp))),
           Quoted(Str("oauth_token"), enc(Prop(cfg, "tokenId"))),
           Quoted(Str("oauth_version"), Str("1.0"))>>,
         Str(", "))

\* 'OAuth ' + [ ... ].join(', ')
authHeaderOf(cfg, nonce, signature, timestamp) ==
    Str("OAuth ") \o
    join(<<Quoted(Str("realm"), enc(Prop(cfg, "accountId"))),
           Quoted(Str("oauth_consumer_key"), enc(Prop(cfg, "consumerKey"))),
           Quoted(Str("oauth_nonce"), enc(nonce)),
           Quoted(Str("oauth_signature"), enc(signature)),
           Quoted(Str("oauth_signature_method"), Str("HMAC-SHA256")),
           Quoted(Str("oauth_timestamp"), enc(toString10(timestamp))),
           Quoted(Str("oauth_token"), enc(Prop(cfg, "tokenId"))),
           Quoted(Str("oauth_version"), Str("1.0"))>>,
         Str(", "))

\* the arguments of the encoder calls that build the parameter string, in
\* order: each key, then its value
KeyValueArgs(keys, allParams) ==
    [i \in 1..(2 * Len(keys)) |->
        IF i % 2 = 1 THEN keys[(i + 1) \div 2] ELSE toStr(allParams[keys[i \div 2]])]

Throws(args) == \E i \in 1..Len(args) : HasLoneSurrogate(args[i])

\* how many of the calls on args are made: all of them, or those up to and
\* including the first one that throws URIError
CallsMade(args) ==
    IF Throws(args) THEN Min({i \in 1..Len(args) : HasLoneSurrogate(args[i])})
    ELSE Len(args)

\* what a call that threw leaves behind
Thrown(name, url, method, timestamp, nonce, encodes, hmacs) ==
    [threw |-> TRUE, name |-> name, url |-> url, method |-> method,
     timestamp |-> timestamp, nonce |-> nonce,
     encodeCalls |-> encodes, hmacCalls |-> hmacs]

\* generateOAuthHeader from the parsed URL on
SignParsed(cfg, url, method, timestamp, nonce, urlObj) ==
    LET baseUrl     == baseUrlOf(urlObj)
        queryParams == queryParamsOf(urlObj)
        oauthParams == oauthParamsOf(cfg, nonce, timestamp)
        allParams   == allParamsOf(oauthParams, queryParams)
        keys        == sortedKeys(allParams)
        before      == KeyValueArgs(keys, allParams) \o <<baseUrl>>
        paramString == paramStringOf(keys, allParams)
        keyArgs     == <<toStr(Prop(cfg, "consumerSecret")), toStr(Prop(cfg, "tokenSecret"))>>
        signingKey  == signingKeyOf(cfg)
        baseString  == baseStringOf(method, baseUrl, paramString)
        signature   == signatureOf(signingKey, baseString)
        after       == <<toStr(Prop(cfg, "accountId")), toStr(Prop(cfg, "consumerKey")),
                         nonce, signature, toString10(timestamp),
                         toStr(Prop(cfg, "tokenId"))>>
    IN  IF Throws(before)
        THEN Thrown("URIError", url, method, timestamp, nonce, CallsMade(before), 0)
        ELSE IF Throws(keyArgs)
        THEN Thrown("URIError", url, method, timestamp, nonce,
                    Len(before) + 1 + CallsMade(keyArgs), 0)
        ELSE IF Throws(after)
        THEN Thrown("URIError", url, method, timestamp, nonce,
                    Len(before) + 3 + CallsMade(after), 1)
        ELSE [threw |-> FALSE, url |-> url, method |-> method,
              timestamp |-> timestamp, nonce |-> nonce,
              baseUrl |-> baseUrl, queryParams |-> queryParams,
              oauthParams |-> oauthParams, allParams |-> allParams,
              paramString |-> paramString, baseString |-> baseString,
              signingKey |-> signingKey, signature |-> signature,
              header |-> authHeaderOf(cfg, nonce, signature, timestamp),
              encodeCalls |-> Len(before) + 3 + Len(after), hmacCalls |-> 1]

\* a signer that keeps failing once a call has thrown
generateOAuthHeader_StaysFailed(cfg, url, method, now, rnd) ==
    IF thrown.threw \/ URL(url).invalid
    THEN Thrown("TypeError", url, method, timestampOf(now), nonceOf(rnd), 0, 0)
    ELSE SignParsed(cfg, url, method, timestampOf(now), nonceOf(rnd), URL(url))

\* generateOAuthHeader(url, method) run on configuration cfg with the clock
\* reading now and the random octets rnd: what it returns or throws, its
\* locals, and how many encoder and HMAC calls it made
generateOAuthHeader(cfg, url, method, now, rnd) ==
    LET timestamp == timestampOf(now)
        nonce     == nonceOf(rnd)
        urlObj    == URL(url)
    IN  IF urlObj.invalid
        THEN Thrown("TypeError", url, method, timestamp, nonce, 0, 0)
        ELSE SignParsed(cfg, url, method, timestamp, nonce, urlObj)

(***************************************************************************)
(* NetSuiteDownloader.testAuth: the URL it signs.                          *)
(***************************************************************************)
\* String.prototype.replace(a, b) with string arguments: the first occurrence
replaceFirst(s, a, b) ==
    LET k == IndexOf(s, a, 1)
    IN  IF k = 0 THEN s
        ELSE SubSeq(s, 1, k - 1) \o b \o SubSeq(s, k + Len(a), Len(s))

\* `https://${accountId.toLowerCase().replace('_', '-')}.suitetalk.api.netsuite.com`
\* + '/services/rest/record/v1/metadata-catalog'
testAuthUrl(cfg) ==
    Concat(<<Str("https://"),
             replaceFirst(toLowerCase(Prop(cfg, "accountId")), Str("_"), Str("-")),
             Str(".suitetalk.api.netsuite.com"),
             Str("/services/rest/record/v1/metadata-catalog")>>)

(***************************************************************************)
(* JavaScript values of a parsed response body, each tagged with its type  *)
(* t: a boolean b, an integer n, a string s (a sequence of code units),    *)
(* the elements a of an array in order, or the function o from an object's *)
(* own property names to their values.                                     *)
(***************************************************************************)
JUndefined == [t |-> "undefined"]
JNull == [t |-> "null"]
JBool(b) == [t |-> "boolean", b |-> b]
JNum(n) == [t |-> "number", n |-> n]
JStr(s) == [t |-> "string", s |-> s]
JArr(xs) == [t |-> "array", a |-> xs]
JObj(f) == [t |-> "object", o |-> f]

\* reading a property of undefined or null throws TypeError
CanRead(v) == v.t \notin {"undefined", "null"}

\* v[key] for a value that can be read
Get(v, key) ==
    IF v.t = "object" THEN (IF key \in DOMAIN v.o THEN v.o[key] ELSE JUndefined)
    ELSE IF v.t = "array" /\ key = "length" THEN JNum(Len(v.a))
    ELSE IF v.t = "string" /\ key = "length" THEN JNum(Len(v.s))
    ELSE JUndefined

\* v[i - 1], i from 1
At(v, i) ==
    IF v.t = "array" /\ i \in 1..Len(v.a) THEN v.a[i]
    ELSE IF v.t = "string" /\ i \in 1..Len(v.s) THEN JStr(<<v.s[i]>>)
    ELSE JUndefined

\* ToBoolean
Truthy(v) ==
    CASE v.t \in {"undefined", "null"} -> FALSE
      [] v.t = "boolean" -> v.b
      [] v.t = "number" -> v.n # 0
      [] v.t = "string" -> v.s # << >>
      [] OTHER -> TRUE

\* a || b
OrElse(a, b) == IF Truthy(a) THEN a ELSE b

\* a > 0, a === 0: undefined compares false with every number
GreaterThanZero(a) == a.t = "number" /\ a.n > 0
StrictEquals(a, b) == a = b

\* what an exception is
Exception(name, message) == [threw |-> TRUE, name |-> name, message |-> message]

(***************************************************************************)
(* JSON text.  stringify writes a value as JSON.stringify writes it, for   *)
(* strings that need no escape and properties in some fixed order;         *)
(* JSONparse reads a text as JSON.parse does for the texts of Parsable and *)
(* throws SyntaxError for a text that is none of them.                     *)
(***************************************************************************)
RECURSIVE SetToSeq(_)
SetToSeq(S) ==
    IF S = {} THEN << >>
    ELSE LET x == CHOOSE y \in S : TRUE IN <<x>> \o SetToSeq(S \ {x})

Q(s) == DQUOTE \o s \o DQUOTE

RECURSIVE stringify(_)
stringify(v) ==
    CASE v.t = "null" -> Str("null")
      [] v.t = "boolean" -> (IF v.b THEN Str("true") ELSE Str("false"))
      [] v.t = "number" -> toString10(v.n)
      [] v.t = "string" -> Q(v.s)
      [] v.t = "array" ->
             Str("[") \o join([i \in 1..Len(v.a) |-> stringify(v.a[i])], Str(",")) \o Str("]")
      [] v.t = "object" ->
             LET keys == SetToSeq(DOMAIN v.o)
             IN  Str("{")
                 \o join([i \in 1..Len(keys) |->
                             Q(Str(keys[i])) \o Str(":") \o stringify(v.o[keys[i]])],
                         Str(","))
                 \o Str("}")

\* space, tab, line feed, carriage return
WhiteSpace == {32, 9, 10, 13}

\* !data || data.trim() === ''
IsBlank(data) == \A i \in 1..Len(data) : data[i] \in WhiteSpace

(***************************************************************************)
(* The file system the program writes: the directories that exist and the  *)
(* files written, by absolute path.  path.join normalises what it joins:   *)
(* empty and '.' segments go, '..' takes the segment before it.            *)
(***************************************************************************)
Cwd == Str("/w")

RECURSIVE Normal(_, _)
\* the segments of a normalised absolute path: done so far, then the rest
Normal(done, rest) ==
    IF rest = << >> THEN done
    ELSE IF rest[1] = << >> \/ rest[1] = Str(".") THEN Normal(done, Tail(rest))
    ELSE IF rest[1] = Str("..")
    THEN Normal(IF done = << >> THEN done ELSE SubSeq(done, 1, Len(done) - 1), Tail(rest))
    ELSE Normal(Append(done, rest[1]), Tail(rest))

\* path.join(a, b) for an absolute a
pathJoin(a, b) ==
    Str("/") \o join(Normal(<< >>, split(a, 47) \o split(b, 47)), Str("/"))

\* path.dirname of a normalised absolute path
dirname(p) ==
    LET segs == Normal(<< >>, split(p, 47))
    IN  Str("/") \o join(SubSeq(segs, 1, Len(segs) - 1), Str("/"))

NoFiles == [dirs |-> {Str("/"), Cwd}, files |-> << >>]

\* fs.existsSync(path): true of a directory and of a file
existsSync(fs, path) == path \in fs.dirs \/ path \in DOMAIN fs.files

\* fs.existsSync(dir) false: fs.mkdirSync(dir, { recursive: true })
mkdirIfMissing(fs, dir) ==
    IF existsSync(fs, dir) THEN fs
    ELSE [fs EXCEPT !.dirs = @ \cup {dir, dirname(dir)}]

\* fs.writeFileSync(path, content) throws when path is a directory (EISDIR)
\* or its directory does not exist (ENOENT)
CanWrite(fs, path) == path \notin fs.dirs /\ dirname(path) \in fs.dirs

writeFile(fs, path, content) ==
    [fs EXCEPT !.files = [p \in (DOMAIN @) \cup {path} |->
                              IF p = path THEN content ELSE @[p]]]

(***************************************************************************)
(* NetSuiteDownloader.downloadTodaysDueDateLogs from the resolved response *)
(* on: the checks of the response, the logs directory, one file written    *)
(* per entry of response.logFiles, and the value returned.                 *)
(***************************************************************************)
\* path.join(process.cwd(), 'logs')
logsDirOf == pathJoin(Cwd, Str("logs"))

\* `dueDateLogs-${today}-${i + 1}.txt`, i + 1 being the place from 1
defaultName(today, place) ==
    Concat(<<Str("dueDateLogs-"), today, Str("-"), toString10(place), Str(".txt")>>)

\* the entry pushed for logData, written to filePath as fileName
logFileEntry(logData, fileName, filePath, content, today) ==
    JObj(("name" :> JStr(fileName)) @@ ("path" :> JStr(filePath))
         @@ ("type" :> OrElse(Get(logData, "type"), JStr(Str("duedate"))))
         @@ ("size" :> OrElse(Get(logData, "size"), JNum(Len(content))))
         @@ ("modified" :> OrElse(Get(logData, "modified"), JStr(today)))
         @@ ("fileId" :> OrElse(Get(logData, "fileId"), JNull)))

RECURSIVE writeLogFiles(_, _, _, _, _)
\* fs.writeFileSync(filePath, content) for the entry logData at place i, the
\* entry pushed, and the loop from the next place on
writeAt(items, i, today, fs, logFiles, logData, fileName, content, filePath) ==
    IF ~CanWrite(fs, filePath)
    THEN [threw |-> TRUE, name |-> "Error", message |-> "writeFileSync", fs |-> fs]
    ELSE writeLogFiles(items, i + 1, today, writeFile(fs, filePath, content),
                       Append(logFiles, logFileEntry(logData, fileName, filePath, content, today)))

\* the body of the loop for the entry logData at place i once fileName and
\* content are known: path.join and the write throw TypeError unless both
\* are strings
writeNamed(items, i, today, fs, logFiles, logData, fileName, content) ==
    IF fileName.t # "string"
    THEN [threw |-> TRUE, name |-> "TypeError", message |-> "path.join", fs |-> fs]
    ELSE IF content.t # "string"
    THEN [threw |-> TRUE, name |-> "TypeError", message |-> "writeFileSync", fs |-> fs]
    ELSE writeAt(items, i, today, fs, logFiles, logData, fileName.s, content.s,
                 pathJoin(logsDirOf, fileName.s))

\* the body of the loop for the entry logData at place i
writeEntry(items, i, today, fs, logFiles, logData) ==
    IF ~CanRead(logData)
    THEN [threw |-> TRUE, name |-> "TypeError", message |-> "read of name", fs |-> fs]
    ELSE writeNamed(items, i, today, fs, logFiles, logData,
                    OrElse(Get(logData, "name"), JStr(defaultName(today, i))),
                    OrElse(Get(logData, "content"), JStr(<< >>)))

\* the loop over responseLogFiles from place i on: the file system and the
\* entries pushed when it ends, or what it throws and the file system then
writeLogFiles(items, i, today, fs, logFiles) ==
    IF ~GreaterThanZero(Get(items, "length")) \/ i > Get(items, "length").n
    THEN [threw |-> FALSE, fs |-> fs, logFiles |-> logFiles]
    ELSE writeEntry(items, i, today, fs, logFiles, At(items, i))

\* the checks with the test of success taken as !response.success
checkResponse_TruthySuccess(response) ==
    IF ~CanRead(response) THEN Exception("TypeError", "read of error")
    ELSE IF Truthy(Get(response, "error")) THEN Exception("Error", "NetSuite API error")
    ELSE IF ~Truthy(Get(response, "success")) THEN Exception("Error", "NetSuite RESTlet error")
    ELSE NoError

\* the checks of the response: what they throw, or NoError
checkResponse(response) ==
    IF ~CanRead(response) THEN Exception("TypeError", "read of error")
    ELSE IF Truthy(Get(response, "error"))
    THEN IF StrictEquals(Get(Get(response, "error"), "code"),
                         JStr(Str("INVALID_LOGIN_ATTEMPT")))
         THEN Exception("Error", "Authentication failed")
         ELSE Exception("Error", "NetSuite API error")
    ELSE IF ~Truthy(response) THEN Exception("Error", "No response received")
    ELSE IF StrictEquals(Get(response, "success"), JBool(FALSE))
    THEN Exception("Error", "NetSuite RESTlet error")
    ELSE IF ~StrictEquals(Get(response, "success"), JBool(TRUE))
    THEN Exception("Error", "Unexpected response format")
    ELSE NoError

\* the value downloadTodaysDueDateLogs returns once the loop has ended as
\* written, or what the loop threw
downloadReturn(written, response, today) ==
    IF written.threw THEN written
    ELSE [threw |-> FALSE, fs |-> written.fs,
          value |-> JObj(("success" :> JBool(TRUE))
                         @@ ("logFiles" :> JArr(written.logFiles))
                         @@ ("totalFiles" :> JNum(Len(written.logFiles)))
                         @@ ("date" :> JStr(today))
                         @@ ("message" :> Get(response, "message")))]

\* the rest of downloadTodaysDueDateLogs once makeNetSuiteRequest resolved
\* with response: whether it throws, the file system it leaves, and the
\* value it returns
downloadFrom(response, today, fs) ==
    IF checkResponse(response).threw THEN checkResponse(response) @@ [fs |-> fs]
    ELSE downloadReturn(writeLogFiles(OrElse(Get(response, "logFiles"), JArr(<< >>)), 1,
                                      today, mkdirIfMissing(fs, logsDirOf), << >>),
                        response, today)

(***************************************************************************)
(* Dates.  new Date().toISOString().split('T')[0] for a clock reading in   *)
(* milliseconds within the first year of the epoch.                        *)
(***************************************************************************)
MsPerDay == 86400000

\* the days of 1970 before each month
MonthStart == <<0, 31, 59, 90, 120, 151, 181, 212, 243, 273, 304, 334>>

pad2(n) == IF n < 10 THEN Str("0") \o toString10(n) ELSE toString10(n)

dateOf(now) ==
    LET days  == now \div MsPerDay
        month == CHOOSE m \in 1..12 :
                     /\ MonthStart[m] <= days
                     /\ m = 12 \/ days < MonthStart[m + 1]
    IN  Concat(<<Str("1970-"), pad2(month), Str("-"), pad2(days - MonthStart[month] + 1)>>)

(***************************************************************************)
(* DueDateLogAnalyzer (run-analysis.js): the two reports it writes itself  *)
(* and runDailyAnalysis from the settled download on.                      *)
(***************************************************************************)
\* path.join(process.cwd(), 'errors')
errorsDirOf == pathJoin(Cwd, Str("errors"))

\* `no-duedate-logs-found-${today}.txt` and `duedate-system-error-${today}.txt`
noLogsReportPath(today) ==
    pathJoin(errorsDirOf, Concat(<<Str("no-duedate-logs-found-"), today, Str(".txt")>>))

errorReportPath(today) ==
    pathJoin(errorsDirOf, Concat(<<Str("duedate-system-error-"), today, Str(".txt")>>))

\* fs.writeFileSync(path, content): the file system after it, or what it
\* throws
writeReport(fs, path, content) ==
    IF ~CanWrite(fs, path) THEN Exception("Error", "writeFileSync") @@ [fs |-> fs]
    ELSE [threw |-> FALSE, fs |-> writeFile(fs, path, content)]

\* createNoLogsReport(): the file system after it, or what it throws
createNoLogsReport(fs, today) ==
    writeReport(mkdirIfMissing(fs, errorsDirOf), noLogsReportPath(today),
                [report |-> "NO LOG FILES FOUND", date |-> today])

\* createErrorReport(error)
createErrorReport(fs, today, error) ==
    writeReport(mkdirIfMissing(fs, errorsDirOf), errorReportPath(today),
                [report |-> "ANALYSIS FAILED", date |-> today, message |-> error.message])

\* the end of the catch block of runDailyAnalysis once createErrorReport
\* ended as reported: the error thrown again, or what writing the report threw
rethrown(reported, error) ==
    [state |-> "rejected",
     error |-> IF reported.threw THEN [name |-> reported.name, message |-> reported.message]
               ELSE error,
     fs |-> reported.fs, analysed |-> << >>]

\* the catch block of runDailyAnalysis: the error report, then the error
\* thrown again
runCatch(fs, today, error) == rethrown(createErrorReport(fs, today, error), error)

\* runDailyAnalysis after createNoLogsReport ended as reported
noLogsReturn(reported, today) ==
    IF reported.threw
    THEN runCatch(reported.fs, today, [name |-> reported.name, message |-> reported.message])
    ELSE [state |-> "fulfilled", value |-> JUndefined, fs |-> reported.fs, analysed |-> << >>]

\* runDailyAnalysis from the point where downloadTodaysDueDateLogs settled
\* as d, the clock showing the day today: the state of its promise, the
\* file system, and the argument of geminiAnalyzer.analyzeLogFiles if that
\* gets called (it is awaited: the promise stays pending)
runFrom(d, today) ==
    IF d.threw THEN runCatch(d.fs, today, [name |-> d.name, message |-> d.message])
    ELSE IF StrictEquals(Get(d.value, "length"), JNum(0))
    THEN noLogsReturn(createNoLogsReport(d.fs, today), today)
    ELSE IF d.value.t # "array"
    THEN runCatch(d.fs, today,
                  [name |-> "TypeError", message |-> "logFiles.forEach is not a function"])
    ELSE [state |-> "analysing", fs |-> d.fs, analysed |-> <<d.value>>]

(***************************************************************************)
(* The inputs the model draws from.                                        *)
(***************************************************************************)
\* at most this many calls are made on a constructed downloader
MaxCalls == 1

Cred1 ==
    ("accountId" :> Str("1234567_SB1")) @@ ("consumerKey" :> Str("CK"))
    @@ ("consumerSecret" :> Str("CS")) @@ ("tokenId" :> Str("TK"))
    @@ ("tokenSecret" :> Str("TS"))

\* credentials whose characters need escaping
Cred2 ==
    ("accountId" :> Str("AC 1")) @@ ("consumerKey" :> Str("C!K"))
    @@ ("consumerSecret" :> Str("c&s")) @@ ("tokenId" :> Str("T/K") \o <<233>>)
    @@ ("tokenSecret" :> Str("t=s*"))

\* a consumer secret that is not well-formed UTF-16
Cred3 == [Cred1 EXCEPT !["consumerSecret"] = Str("C") \o <<55357>>]

RestletUrl == Str("https://a.b/app.nl?script=1&deploy=1")

WithUrl(cred, url) == cred @@ ("restletUrl" :> url)

GoodConfigs ==
    {WithUrl(Cred1, RestletUrl), WithUrl(Cred2, RestletUrl), WithUrl(Cred3, RestletUrl),
     WithUrl(Cred1, Str("nourl")),
     WithUrl(Cred2, Str("https://a.b:8443/r?deploy=2&deploy=1#top"))}

\* the configuration with property key not set
Without(cfg, key) == [k \in (DOMAIN cfg) \ {key} |-> cfg[k]]

\* configurations in which one property is unset or empty, or two are unset
BadConfigs ==
    {Without(WithUrl(Cred1, RestletUrl), k) : k \in DOMAIN WithUrl(Cred1, RestletUrl)}
    \cup {[WithUrl(Cred1, RestletUrl) EXCEPT ![k] = << >>] : k \in DOMAIN WithUrl(Cred1, RestletUrl)}
    \cup {Without(Without(WithUrl(Cred2, RestletUrl), "tokenSecret"), "accountId")}

Configs == GoodConfigs \cup BadConfigs

\* the <<url, method>> arguments of direct generateOAuthHeader calls
Calls ==
    {<<RestletUrl, Str("POST")>>, <<RestletUrl, Str("GET")>>, <<RestletUrl, Str("post")>>,
     <<Str("https://a.b/p?a=1&a=2"), Str("POST")>>,
     <<Str("https://a.b/p?a-=1&a/=2"), Str("POST")>>,
     <<Str("https://a.b:8443/p?x=1#frag"), Str("GET")>>,
     <<Str("https://a.b:443/p"), Str("Get")>>,
     <<Str("http://a.b:443?oauth_nonce=zz&oauth_token=T"), Str("POST")>>,
     <<Str("https://a.b/p?k=a+b%26c&e=%C3%A9&&z"), Str("POST")>>,
     <<Str("nourl"), Str("POST")>>}

\* readings of Date.now(), in milliseconds
Clock == {1700000999, 1700001000}

\* results of crypto.randomBytes(16)
RandomOctets == {[i \in 1..16 |-> 171], [i \in 1..16 |-> (i * 37) % 256]}

(***************************************************************************)
(* The responses the model draws from: the values a RESTlet response body  *)
(* is the JSON text of, other bodies, and how a body arrives.              *)
(***************************************************************************)
LogA == JObj(("name" :> JStr(Str("a.txt"))) @@ ("content" :> JStr(Str("x")))
             @@ ("type" :> JStr(Str("penalty"))))
LogNoName == JObj("content" :> JStr(Str("y")))
LogOutside == JObj(("name" :> JStr(Str("../../x.txt"))) @@ ("content" :> JStr(Str("z"))))
LogErrors == JObj(("name" :> JStr(Str("../errors"))) @@ ("content" :> JStr(Str("e"))))

Success(logFiles) ==
    JObj(("success" :> JBool(TRUE)) @@ ("message" :> JStr(Str("ok")))
         @@ ("logFiles" :> JArr(logFiles)))

ResponseValues ==
    {JNull, JBool(FALSE), JObj(<< >>),
     Success(<< >>), Success(<<LogA>>), Success(<<LogNoName, LogOutside>>),
     Success(<<LogA, JNull>>), Success(<<LogErrors, JNull>>),
     JObj(("success" :> JBool(TRUE)) @@ ("message" :> JStr(Str("ok")))),
     JObj(("success" :> JBool(FALSE)) @@ ("message" :> JStr(Str("no")))),
     JObj("success" :> JStr(Str("true"))),
     JObj("error" :> JObj(("code" :> JStr(Str("INVALID_LOGIN_ATTEMPT")))
                          @@ ("message" :> JStr(Str("m"))))),
     JObj(("error" :> JObj("code" :> JStr(Str("X")))) @@ ("success" :> JBool(TRUE))),
     JObj(("error" :> JNull) @@ ("success" :> JBool(TRUE)) @@ ("message" :> JStr(Str("ok"))))}

(***************************************************************************)
(* The answers of the Gemini API the model draws from: the texts a         *)
(* candidate carries and the values a response body is the JSON text of.   *)
(***************************************************************************)
\* texts of the AI: no errors, two numbered errors, an error that is not
\* numbered, and no errors although one is listed
AiTexts ==
    {Str("NO ERRORS DETECTED"), Str("Error 1: a Error 22: b"), Str("SCRIPT ERROR: Error x"),
     Str("Error 1: a. Else NO ERRORS DETECTED")}

Candidate(text, finishReason) ==
    JObj(("content" :> JObj("parts" :> JArr(<<JObj("text" :> text)>>)))
         @@ ("finishReason" :> JStr(Str(finishReason))))

Generated(text, finishReason) == JObj("candidates" :> JArr(<<Candidate(text, finishReason)>>))

GeminiValues ==
    {Generated(JStr(t), "STOP") : t \in AiTexts}
    \cup {Generated(JStr(Str("Error 1: a")), "MAX_TOKENS"), Generated(JNum(7), "MAX_TOKENS"),
          Generated(JNum(7), "STOP"), Generated(JStr(<< >>), "STOP"),
          Generated(JStr(Str("Error 1: a")), "SAFETY"),
          JObj("promptFeedback" :> JObj("blockReason" :> JStr(Str("OTHER")))),
          JObj("candidates" :> JArr(<< >>)),
          JObj("candidates" :> JArr(<<JNull>>)),
          JObj("candidates" :> JArr(<<JObj("finishReason" :> JStr(Str("RECITATION")))>>)),
          JNull}

\* the values whose JSON text a body can be
Parsable == ResponseValues \cup GeminiValues

\* a body in one chunk, and the body of Success(<< >>) in two
Halves(s) == <<SubSeq(s, 1, Len(s) \div 2), SubSeq(s, Len(s) \div 2 + 1, Len(s))>>

\* the chunks of a response body: a JSON text, no body, white space, HTML
Bodies ==
    {<<stringify(v)>> : v \in ResponseValues}
    \cup {Halves(stringify(Success(<< >>))), << >>, <<<<32, 10>>>>, <<Str("<html>")>>}

\* the status codes of a response
Statuses == {200, 401}

\* clock readings when a response has ended
LaterClock == {1700002000}

(***************************************************************************)
(* The handlers of a response and what the operations awaiting it do       *)
(* then.                                                                   *)
(***************************************************************************)
\* JSON.parse(text)
JSONparse(text) ==
    IF \E v \in Parsable : stringify(v) = text
    THEN [threw |-> FALSE, value |-> CHOOSE v \in Parsable : stringify(v) = text]
    ELSE Exception("SyntaxError", "JSON.parse")

\* resolve(jsonData), or the reject of the catch around JSON.parse
parsedOutcome(parsed) ==
    IF parsed.threw THEN Exception("Error", "Failed to parse JSON response")
    ELSE [threw |-> FALSE, value |-> parsed.value]

\* res.on('end') of makeNetSuiteRequest: how its promise settles
endOutcome(data) ==
    IF IsBlank(data) THEN Exception("Error", "Empty response from NetSuite")
    ELSE parsedOutcome(JSONparse(data))

\* the promise of makeNetSuiteRequest once its request settled as outcome
requestSettled(outcome, fs) ==
    IF outcome.threw
    THEN [state |-> "rejected", error |-> [name |-> outcome.name, message |-> outcome.message],
          fs |-> fs, analysed |-> << >>]
    ELSE [state |-> "fulfilled", value |-> outcome.value, fs |-> fs, analysed |-> << >>]

\* downloadTodaysDueDateLogs from its await on: the catch block throws the
\* error of a rejected request again
downloadOutcome(outcome, today, fs) ==
    IF outcome.threw THEN outcome @@ [fs |-> fs]
    ELSE downloadFrom(outcome.value, today, fs)

\* the promise of downloadTodaysDueDateLogs once it returned or threw as d
downloadSettled(d) ==
    IF d.threw
    THEN [state |-> "rejected", error |-> [name |-> d.name, message |-> d.message],
          fs |-> d.fs, analysed |-> << >>]
    ELSE [state |-> "fulfilled", value |-> d.value, fs |-> d.fs, analysed |-> << >>]

\* the promise of operation name once makeNetSuiteRequest settled as outcome
\* (resolved with a value, or rejected), the file system being fs and the
\* clock reading now: downloadTodaysDueDateLogs goes on from its await, and
\* runDailyAnalysis from its own when that has settled
settle(name, today, now, outcome, fs) ==
    IF name = "makeNetSuiteRequest" THEN requestSettled(outcome, fs)
    ELSE IF name = "downloadTodaysDueDateLogs"
    THEN downloadSettled(downloadOutcome(outcome, today, fs))
    ELSE runFrom(downloadOutcome(outcome, today, fs), dateOf(now))

\* res.on('end') of testAuth: resolve(res.statusCode === 200)
testAuthEnd(status, fs) ==
    [state |-> "fulfilled", value |-> JBool(status = 200), fs |-> fs, analysed |-> << >>]

\* req.on('error') of testAuth: resolve(false)
testAuthError(fs) ==
    [state |-> "fulfilled", value |-> JBool(FALSE), fs |-> fs, analysed |-> << >>]

(***************************************************************************)
(* GeminiAnalyzer (gemini-analyzer.js): how callGeminiAPI settles when the *)
(* response has ended, what processLogFile makes of the text of the AI,    *)
(* the reports, and the daily summary.  A report is kept as the values its *)
(* template is filled with.                                                *)
(***************************************************************************)
\* String(v) for a number, a boolean and a string
jsString(v) ==
    IF v.t = "string" THEN v.s
    ELSE IF v.t = "number" THEN toString10(v.n)
    ELSE IF v.t = "boolean" THEN (IF v.b THEN Str("true") ELSE Str("false"))
    ELSE Str("[object Object]")

\* the TypeError of the handler, caught by its try
FailedToParse == Exception("Error", Str("Failed to parse Gemini response"))

TruncatedWarning ==
    <<10, 10>> \o Str("[WARNING: Analysis may be incomplete - response was truncated due to length]")

\* from text on: resolve(text), the warning appended after MAX_TOKENS;
\* text.substring throws TypeError when text is no string by then
geminiText(text, finishReason) ==
    IF ~Truthy(text) THEN Exception("Error", Str("Empty text in response"))
    ELSE IF StrictEquals(finishReason, JStr(Str("MAX_TOKENS")))
    THEN [threw |-> FALSE, value |-> jsString(text) \o TruncatedWarning]
    ELSE IF text.t # "string" THEN FailedToParse
    ELSE [threw |-> FALSE, value |-> text.s]

\* candidate.content.parts[0].text
geminiPart(part, finishReason) ==
    IF ~CanRead(part) THEN FailedToParse
    ELSE geminiText(Get(part, "text"), finishReason)

\* from candidate = result.candidates[0] on
geminiCandidate(candidate) ==
    IF ~CanRead(candidate) THEN FailedToParse
    ELSE IF StrictEquals(Get(candidate, "finishReason"), JStr(Str("SAFETY")))
    THEN Exception("Error", Str("Response blocked due to safety filters"))
    ELSE IF \/ ~Truthy(Get(candidate, "content"))
            \/ ~Truthy(Get(Get(candidate, "content"), "parts"))
            \/ StrictEquals(Get(Get(Get(candidate, "content"), "parts"), "length"), JNum(0))
    THEN Exception("Error", Str("No content in candidate"))
    ELSE geminiPart(At(Get(Get(candidate, "content"), "parts"), 1),
                    Get(candidate, "finishReason"))

\* from result = JSON.parse(data) on
geminiResult(result) ==
    IF ~CanRead(result) THEN FailedToParse
    ELSE IF /\ Truthy(Get(result, "promptFeedback"))
            /\ Truthy(Get(Get(result, "promptFeedback"), "blockReason"))
    THEN Exception("Error", Str("Content blocked by Gemini"))
    ELSE IF \/ ~Truthy(Get(result, "candidates"))
            \/ StrictEquals(Get(Get(result, "candidates"), "length"), JNum(0))
    THEN Exception("Error", Str("No candidates in response"))
    ELSE geminiCandidate(At(Get(result, "candidates"), 1))

geminiParsed(parsed) == IF parsed.threw THEN FailedToParse ELSE geminiResult(parsed.value)

\* res.on('end') of callGeminiAPI: resolve(text), or what it rejects with
geminiEnd(status, data) ==
    IF status # 200 THEN Exception("Error", Str("Gemini API error"))
    ELSE geminiParsed(JSONparse(data))

\* str.includes(sub)
includes(s, sub) == IndexOf(s, sub, 1) # 0

\* the first place from k on that holds no digit
DigitsEnd(s, k) == Min({j \in k..(Len(s) + 1) : j = Len(s) + 1 \/ ~IsDigit(s[j])})

\* /Error \d+:/ matches at place i
ErrorNumberAt(s, i) ==
    /\ i + 7 <= Len(s)
    /\ SubSeq(s, i, i + 5) = Str("Error ")
    /\ DigitsEnd(s, i + 6) > i + 6
    /\ DigitsEnd(s, i + 6) <= Len(s)
    /\ s[DigitsEnd(s, i + 6)] = 58

\* (aiResponse.match(/Error \d+:/g) || []).length
matchCount(aiResponse) == Cardinality({i \in 1..Len(aiResponse) : ErrorNumberAt(aiResponse, i)})

hasErrorsOf(aiResponse) == ~includes(aiResponse, Str("NO ERRORS DETECTED"))

errorCountOf(aiResponse) == IF hasErrorsOf(aiResponse) THEN matchCount(aiResponse) ELSE 0

\* `duedate-errors-${today}.txt`, the name of every report on a log file
outputFileName(today) == Concat(<<Str("duedate-errors-"), today, Str(".txt")>>)

\* GeminiAnalyzer.createErrorReport and createNoErrorReport
analysisReport(logFile, aiResponse, today) ==
    IF hasErrorsOf(aiResponse)
    THEN [report |-> "ERRORS DETECTED", date |-> today, source |-> Get(logFile, "name"),
          errorCount |-> errorCountOf(aiResponse), aiResponse |-> aiResponse]
    ELSE [report |-> "NO ERRORS FOUND", date |-> today, source |-> Get(logFile, "name"),
          aiResponse |-> aiResponse]

\* the value processLogFile returns after its report was written
analysisResult(logFile, aiResponse, today) ==
    [logFile |-> logFile, outputFile |-> outputFileName(today),
     hasErrors |-> hasErrorsOf(aiResponse), errorCount |-> errorCountOf(aiResponse),
     aiResponse |-> aiResponse]

\* the content of the fallback report and the value createFallbackReport returns
fallbackReport(logFile, message, today) ==
    [report |-> "AI ANALYSIS FAILED", date |-> today, source |-> Get(logFile, "name"),
     reason |-> message]

fallbackResult(logFile, message, today) ==
    [logFile |-> logFile, outputFile |-> outputFileName(today),
     hasErrors |-> FALSE, errorCount |-> 0,
     aiResponse |-> Str("Analysis failed: ") \o message]

RECURSIVE reduceErrors(_, _)
\* the sum of the errorCount of the results from place i on
reduceErrors(results, i) ==
    IF i > Len(results) THEN 0 ELSE results[i].errorCount + reduceErrors(results, i + 1)

\* results.reduce((sum, result) => sum + (result.errorCount || 0), 0)
totalErrorsOf(results) == reduceErrors(results, 1)

\* the content of the daily summary
summaryContent(results, today) ==
    [report |-> "DAILY SUMMARY", date |-> today, analyzed |-> Len(results),
     totalErrors |-> totalErrorsOf(results),
     systems |-> [i \in 1..Len(results) |->
                     [status |-> IF results[i].hasErrors THEN "ERRORS FOUND" ELSE "NORMAL",
                      errorsFound |-> results[i].errorCount,
                      reportFile |-> results[i].outputFile]],
     critical |-> IF totalErrorsOf(results) > 0 THEN "REVIEW REQUIRED"
                  ELSE "No critical issues detected today",
     status |-> IF totalErrorsOf(results) > 0 THEN "ERRORS DETECTED"
                ELSE "SYSTEM STATUS: NORMAL"]

summaryPath(today) ==
    pathJoin(errorsDirOf, Concat(<<Str("daily-summary-"), today, Str(".txt")>>))

\* step 3 of runDailyAnalysis: what the console says of the results
consoleSummary(analysisResults) ==
    [totalErrors |-> totalErrorsOf(analysisResults),
     systemsWithErrors |-> Cardinality({i \in 1..Len(analysisResults) :
                                           analysisResults[i].hasErrors}),
     verdict |-> IF totalErrorsOf(analysisResults) > 0 THEN "ERRORS DETECTED"
                 ELSE "NO ERRORS DETECTED"]

(***************************************************************************)
(* GeminiAnalyzer.analyzeLogFiles as it runs: from its call, and from each *)
(* settled callGeminiAPI, up to the next request it awaits or to its end.  *)
(* trace lists what it did, in order: the requests it made and the files   *)
(* it wrote.                                                               *)
(***************************************************************************)
\* createAnalysisPrompt(logType, logContent)
createAnalysisPrompt(logType, logContent) == [type |-> logType, content |-> logContent]

\* fs.readFileSync(path, 'utf8'): the content, or what it throws
readFileSync(fs, path) ==
    IF path.t = "string" /\ path.s \in DOMAIN fs.files
    THEN [threw |-> FALSE, content |-> fs.files[path.s]]
    ELSE Exception("Error", Str("readFileSync"))

\* path.join(errorsDir, outputFileName), also the fallbackPath
outputPath(today) == pathJoin(errorsDirOf, outputFileName(today))

\* createFallbackReport(logFile, error, errorsDir): its write
createFallbackReport(logFile, message, fs, today) ==
    writeReport(fs, outputPath(today), fallbackReport(logFile, message, today))

\* generateDailySummary(results, errorsDir): its write
generateDailySummary(results, fs, today) ==
    writeReport(fs, summaryPath(today), summaryContent(results, today))

\* analyzeLogFiles throws: its catch block throws the error again
analysisRejected(name, message, fs, trace) ==
    [state |-> "rejected", error |-> [name |-> name, message |-> message],
     fs |-> fs, trace |-> trace, analysed |-> << >>]

\* the end of analyzeLogFiles once generateDailySummary wrote as written:
\* an error of the write is caught in generateDailySummary and logged
summarised(results, trace, written, today) ==
    [state |-> "fulfilled", results |-> results, fs |-> written.fs,
     trace |-> IF written.threw THEN trace
               ELSE Append(trace, [e |-> "summary", file |-> 0, path |-> summaryPath(today)]),
     analysed |-> << >>]

RECURSIVE startFile(_, _, _, _, _, _)
\* the catch block of processLogFile for file i after createFallbackReport
\* ended as reported: its result pushed and the loop from the next file on,
\* or the error of the write, which nothing catches
afterFallback(logFiles, i, results, today, trace, message, reported) ==
    IF reported.threw
    THEN analysisRejected("Error", Str(reported.message), reported.fs, trace)
    ELSE startFile(logFiles, i + 1,
                   Append(results, fallbackResult(logFiles[i], message, today)),
                   reported.fs, today,
                   Append(trace, [e |-> "fallback", file |-> i, path |-> outputPath(today)]))

\* a catch block that gives the error on to analyzeLogFiles
caught_Rethrows(logFiles, i, results, fs, today, trace, message) ==
    analysisRejected("Error", message, fs, trace)

\* the catch block of processLogFile for file i
caught(logFiles, i, results, fs, today, trace, message) ==
    afterFallback(logFiles, i, results, today, trace, message,
                  createFallbackReport(logFiles[i], message, fs, today))

\* a loop that puts each result in front of the earlier ones
afterReport_Unshifts(logFiles, i, results, fs, today, trace, aiResponse, written) ==
    IF written.threw
    THEN caught(logFiles, i, results, fs, today, trace, Str(written.message))
    ELSE startFile(logFiles, i + 1,
                   <<analysisResult(logFiles[i], aiResponse, today)>> \o results,
                   written.fs, today,
                   Append(trace, [e |-> "report", file |-> i, path |-> outputPath(today)]))

\* processLogFile for file i after fs.writeFileSync(outputPath, finalReport)
\* ended as written
afterReport(logFiles, i, results, fs, today, trace, aiResponse, written) ==
    IF written.threw
    THEN caught(logFiles, i, results, fs, today, trace, Str(written.message))
    ELSE startFile(logFiles, i + 1,
                   Append(results, analysisResult(logFiles[i], aiResponse, today)),
                   written.fs, today,
                   Append(trace, [e |-> "report", file |-> i, path |-> outputPath(today)]))

\* processLogFile for file i from the settled callGeminiAPI on
processFrom(logFiles, i, results, fs, today, trace, outcome) ==
    IF outcome.threw
    THEN caught(logFiles, i, results, fs, today, trace, outcome.message)
    ELSE afterReport(logFiles, i, results, fs, today, trace, outcome.value,
                     writeReport(fs, outputPath(today),
                                 analysisReport(logFiles[i], outcome.value, today)))

\* processLogFile for file i up to its await, the log file read as read
processLogFile(logFiles, i, results, fs, today, trace, read) ==
    IF read.threw
    THEN caught(logFiles, i, results, fs, today, trace, read.message)
    ELSE [state |-> "pending", logFiles |-> logFiles, i |-> i, results |-> results,
          fs |-> fs, trace |-> Append(trace, [e |-> "request", file |-> i, path |-> << >>]),
          prompt |-> createAnalysisPrompt(Get(logFiles[i], "type"), read.content),
          analysed |-> << >>]

\* the loop of analyzeLogFiles from file i on, then the daily summary
startFile(logFiles, i, results, fs, today, trace) ==
    IF i > Len(logFiles)
    THEN summarised(results, trace, generateDailySummary(results, fs, today), today)
    ELSE IF ~CanRead(logFiles[i])
    THEN analysisRejected("TypeError", Str("read of name"), fs, trace)
    ELSE processLogFile(logFiles, i, results, fs, today, trace,
                        readFileSync(fs, Get(logFiles[i], "path")))

\* analyzeLogFiles(logFiles) up to its first await, for logFiles an array
\* or a value that cannot be iterated
analyzeLogFiles(logFiles, fs, today) ==
    IF ~CanRead(logFiles)
    THEN analysisRejected("TypeError", Str("read of length"), fs, << >>)
    ELSE IF logFiles.t # "array"
    THEN analysisRejected("TypeError", Str("logFiles is not iterable"),
                          mkdirIfMissing(fs, errorsDirOf), << >>)
    ELSE startFile(logFiles.a, 1, << >>, mkdirIfMissing(fs, errorsDirOf), today, << >>)

(***************************************************************************)
(* The state machine.                                                      *)
(***************************************************************************)
vars ==
    <<config, downloader, thrown, call, caller, encodeCalls, hmacCalls, requests, nCalls,
      history, net, ops, disk, analysed, exit>>

\* what lies beyond the signer: the network, the promises, the disk, the
\* analyser and the process
world == <<net, ops, disk, analysed, exit>>

NoCall == [made |-> FALSE]

Running == [done |-> FALSE]
Exited(code) == [done |-> TRUE, code |-> code]

Init ==
    /\ config = << >>
    /\ downloader = "none"
    /\ thrown = NoError
    /\ call = NoCall
    /\ caller = "none"
    /\ encodeCalls = 0
    /\ hmacCalls = 0
    /\ requests = << >>
    /\ nCalls = 0
    /\ history = << >>
    /\ net = << >>
    /\ ops = << >>
    /\ disk = NoFiles
    /\ analysed = << >>
    /\ exit = Running

\* new NetSuiteDownloader(cfg)
Construct(cfg) ==
    /\ downloader = "none"
    /\ config' = cfg
    /\ \E e \in {validateConfig(cfg)} :
           /\ thrown' = e
           /\ downloader' = IF e.threw THEN "rejected" ELSE "ready"
    /\ UNCHANGED <<call, caller, encodeCalls, hmacCalls, requests, nCalls, history>>
    /\ UNCHANGED world

\* the effect of one generateOAuthHeader call r made by operation who, which
\* read now from the clock and rnd from the random source; request is the
\* place in requests of the request the header goes to, 0 if there is none
Signed(r, who, now, rnd, request) ==
    /\ call' = [made |-> TRUE] @@ r
    /\ history' = Append(history, [who |-> who, now |-> now, rnd |-> rnd,
                                    request |-> request, call |-> [made |-> TRUE] @@ r])
    /\ caller' = who
    /\ encodeCalls' = encodeCalls + r.encodeCalls
    /\ hmacCalls' = hmacCalls + r.hmacCalls
    /\ nCalls' = nCalls + 1
    /\ thrown' = IF r.threw THEN [threw |-> TRUE, name |-> r.name] ELSE NoError

\* downloader.generateOAuthHeader(url, method), called directly
GenerateOAuthHeader(url, method, now, rnd) ==
    /\ downloader = "ready"
    /\ \E r \in {generateOAuthHeader(config, url, method, now, rnd)} :
           Signed(r, "generateOAuthHeader", now, rnd, 0)
    /\ UNCHANGED <<config, downloader, requests>>
    /\ UNCHANGED world

\* the header kept from the signing call before, when there was one
Request_Cached(method, url, r) ==
    [method |-> method, url |-> url,
     Authorization |-> IF call.made /\ ~call.threw THEN call.header ELSE r.header]

\* what https.request is handed
Request(method, url, r) == [method |-> method, url |-> url, Authorization |-> r.header]

\* a request as the network holds it once req.end() was called: no response
\* yet, and the data variable of its response callback
Sent == [phase |-> "sent", status |-> 0, chunks |-> << >>, data |-> << >>]

\* the promise of the operation name, started on the day today, settles or
\* stays pending as s says
Promise(name, today, request, s) ==
    [name |-> name, today |-> today, request |-> request]
    @@ [f \in (DOMAIN s) \ {"fs", "analysed"} |-> s[f]]

\* what settling one promise does to the disk, the analyser and the process
Settled(name, s) ==
    /\ disk' = s.fs
    /\ analysed' = analysed \o s.analysed
    /\ exit' = IF name = "runDailyAnalysis" /\ s.state = "fulfilled" THEN Exited(0)
               ELSE IF name = "runDailyAnalysis" /\ s.state = "rejected" THEN Exited(1)
               ELSE exit

\* makeNetSuiteRequest(requestBody) on configuration cfg, up to req.end(),
\* called by operation name (itself, downloadTodaysDueDateLogs, or
\* runDailyAnalysis through it): signs cfg.restletUrl for POST and hands the
\* request to https.request; if signing throws, its promise is rejected and
\* the operations awaiting it go on at once
PostRestlet(name, cfg, now, rnd) ==
    \E url \in {Prop(cfg, "restletUrl")} :
    \E r \in {generateOAuthHeader(cfg, url, Str("POST"), now, rnd)} :
        /\ Signed(r, "makeNetSuiteRequest", now, rnd,
                  IF r.threw THEN 0 ELSE Len(requests) + 1)
        /\ requests' = IF r.threw THEN requests
                       ELSE Append(requests, Request(Str("POST"), url, r))
        /\ net' = IF r.threw THEN net ELSE Append(net, Sent)
        /\ IF r.threw
           THEN \E s \in {settle(name, dateOf(now), now,
                                 Exception(r.name, "generateOAuthHeader"), disk)} :
                    /\ ops' = Append(ops, Promise(name, dateOf(now), 0, s))
                    /\ Settled(name, s)
           ELSE /\ ops' = Append(ops, Promise(name, dateOf(now), Len(requests) + 1,
                                              [state |-> "pending"]))
                /\ UNCHANGED <<disk, analysed, exit>>

\* downloader.makeNetSuiteRequest(requestBody), called directly
MakeNetSuiteRequest(now, rnd) ==
    /\ downloader = "ready"
    /\ PostRestlet("makeNetSuiteRequest", config, now, rnd)
    /\ UNCHANGED <<config, downloader>>

\* the day of the download kept on the configuration object
DownloadTodaysDueDateLogs_KeepsDate(now, rnd) ==
    /\ downloader = "ready"
    /\ PostRestlet("downloadTodaysDueDateLogs", config, now, rnd)
    /\ config' = ("date" :> dateOf(now)) @@ config
    /\ UNCHANGED downloader

\* downloader.downloadTodaysDueDateLogs(), called directly, up to its await
DownloadTodaysDueDateLogs(now, rnd) ==
    /\ downloader = "ready"
    /\ PostRestlet("downloadTodaysDueDateLogs", config, now, rnd)
    /\ UNCHANGED <<config, downloader>>

\* downloader.testAuth(), up to req.end(): signs the metadata-catalog URL for GET
TestAuth(now, rnd) ==
    /\ downloader = "ready"
    /\ \E url \in {testAuthUrl(config)} :
       \E r \in {generateOAuthHeader(config, url, Str("GET"), now, rnd)} :
           /\ Signed(r, "testAuth", now, rnd, IF r.threw THEN 0 ELSE Len(requests) + 1)
           /\ requests' = IF r.threw THEN requests
                          ELSE Append(requests, Request(Str("GET"), url, r))
           /\ net' = IF r.threw THEN net ELSE Append(net, Sent)
           /\ ops' = Append(ops,
                            IF r.threw
                            THEN Promise("testAuth", dateOf(now), 0,
                                         [state |-> "rejected",
                                          error |-> [name |-> r.name,
                                                     message |-> "generateOAuthHeader"]])
                            ELSE Promise("testAuth", dateOf(now), Len(requests) + 1,
                                         [state |-> "pending"]))
    /\ UNCHANGED <<config, downloader, disk, analysed, exit>>

\* the main entry of run-analysis.js, up to the first await: new
\* DueDateLogAnalyzer() reads the configuration cfg from the environment and
\* constructs the downloader and the Gemini analyser; runDailyAnalysis()
\* calls downloadTodaysDueDateLogs().  An exception of the constructor is
\* not caught: the process ends with code 1.
Main(cfg, now, rnd) ==
    /\ downloader = "none"
    /\ ~exit.done
    /\ config' = cfg
    /\ \E e \in {validateConfig(cfg)} :
           IF e.threw
           THEN /\ downloader' = "rejected"
                /\ thrown' = e
                /\ exit' = Exited(1)
                /\ UNCHANGED <<call, caller, encodeCalls, hmacCalls, requests, nCalls,
                               history, net, ops, disk, analysed>>
           ELSE IF Falsy(Prop(cfg, "geminiApiKey"))
           THEN /\ downloader' = "ready"
                /\ thrown' = Exception("Error", "Gemini API key is required")
                /\ exit' = Exited(1)
                /\ UNCHANGED <<call, caller, encodeCalls, hmacCalls, requests, nCalls,
                               history, net, ops, disk, analysed>>
           ELSE /\ downloader' = "ready"
                /\ PostRestlet("runDailyAnalysis", cfg, now, rnd)

\* the operation whose request is request i
OpOf(i) == CHOOSE k \in 1..Len(ops) : ops[k].request = i

\* the response callback of request i: the response has the status code
\* status and its body will come as chunks
OnResponse(i, status, chunks) ==
    /\ i \in 1..Len(net)
    /\ net[i].phase \in {"sent", "idle"}
    /\ net' = [net EXCEPT ![i] = [phase |-> "receiving", status |-> status,
                                  chunks |-> chunks, data |-> << >>]]
    /\ UNCHANGED <<config, downloader, thrown, call, caller, encodeCalls, hmacCalls,
                   requests, nCalls, history, ops, disk, analysed, exit>>

\* res.on('data') of request i: data += chunk
OnData(i) ==
    /\ i \in 1..Len(net)
    /\ net[i].phase = "receiving"
    /\ net[i].chunks # << >>
    /\ net' = [net EXCEPT ![i].data = @ \o Head(net[i].chunks),
                          ![i].chunks = Tail(@)]
    /\ UNCHANGED <<config, downloader, thrown, call, caller, encodeCalls, hmacCalls,
                   requests, nCalls, history, ops, disk, analysed, exit>>

\* the promise of the operation awaiting request i settles as s
Settle(i, s) ==
    /\ ops' = [ops EXCEPT ![OpOf(i)] =
                   Promise(ops[OpOf(i)].name, ops[OpOf(i)].today, i, s)]
    /\ Settled(ops[OpOf(i)].name, s)

\* res.on('end') of request i, the clock reading now when the operations
\* awaiting it go on
OnEnd(i, now) ==
    /\ i \in 1..Len(net)
    /\ net[i].phase = "receiving"
    /\ net[i].chunks = << >>
    /\ net' = [net EXCEPT ![i].phase = "ended"]
    /\ \E s \in {IF ops[OpOf(i)].name = "testAuth"
                 THEN testAuthEnd(net[i].status, disk)
                 ELSE settle(ops[OpOf(i)].name, ops[OpOf(i)].today, now,
                             endOutcome(net[i].data), disk)} :
           Settle(i, s)
    /\ UNCHANGED <<config, downloader, thrown, call, caller, encodeCalls, hmacCalls,
                   requests, nCalls, history>>

\* req.on('error') of request i
OnError(i, now) ==
    /\ i \in 1..Len(net)
    /\ net[i].phase \in {"sent", "idle", "receiving"}
    /\ net' = [net EXCEPT ![i].phase = "failed"]
    /\ \E s \in {IF ops[OpOf(i)].name = "testAuth"
                 THEN testAuthError(disk)
                 ELSE settle(ops[OpOf(i)].name, ops[OpOf(i)].today, now,
                             Exception("Error", "Network error"), disk)} :
           Settle(i, s)
    /\ UNCHANGED <<config, downloader, thrown, call, caller, encodeCalls, hmacCalls,
                   requests, nCalls, history>>

\* the socket of request i has been idle for the time given to
\* req.setTimeout: the request emits 'timeout'.  No listener is registered
\* for it and setTimeout was given no callback, so nothing runs: the
\* request is not destroyed and its promise is left as it is
OnTimeout(i) ==
    /\ i \in 1..Len(net)
    /\ net[i].phase = "sent"
    /\ net' = [net EXCEPT ![i].phase = "idle"]
    /\ UNCHANGED <<config, downloader, thrown, call, caller, encodeCalls, hmacCalls,
                   requests, nCalls, history, ops, disk, analysed, exit>>

\* what callGeminiAPI hands to https.request
GeminiRequest(prompt) ==
    [method |-> Str("POST"),
     url |-> Str("https://generativelanguage.googleapis.com/v1/models/gemini-2.5-flash:generateContent?key=")
             \o Prop(config, "geminiApiKey"),
     prompt |-> prompt]

\* analyzeLogFiles, the k-th operation, has run as far as s says, the
\* network being seen: if it awaits callGeminiAPI, the request is handed to
\* https.request
Analysed(k, today, seen, s) ==
    /\ requests' = IF s.state = "pending" THEN Append(requests, GeminiRequest(s.prompt))
                   ELSE requests
    /\ net' = IF s.state = "pending" THEN Append(seen, Sent) ELSE seen
    /\ ops' = [j \in 1..k |->
                  IF j = k
                  THEN Promise("analyzeLogFiles", today,
                               IF s.state = "pending" THEN Len(requests) + 1 ELSE 0, s)
                  ELSE ops[j]]
    /\ disk' = s.fs
    /\ UNCHANGED <<config, downloader, thrown, call, caller, encodeCalls, hmacCalls, nCalls,
                   history, exit>>

\* geminiAnalyzer.analyzeLogFiles(logFiles), up to its first await
AnalyzeLogFiles(logFiles, now) ==
    /\ ops = << >>
    /\ analysed' = Append(analysed, logFiles)
    /\ \E s \in {analyzeLogFiles(logFiles, disk, dateOf(now))} :
           Analysed(1, dateOf(now), net, s)

\* res.on('end') of callGeminiAPI for request i, the clock reading now when
\* processLogFile goes on
OnGeminiEnd(i, now) ==
    /\ i \in 1..Len(net)
    /\ net[i].phase = "receiving"
    /\ net[i].chunks = << >>
    /\ ops[OpOf(i)].name = "analyzeLogFiles"
    /\ \E s \in {processFrom(ops[OpOf(i)].logFiles, ops[OpOf(i)].i, ops[OpOf(i)].results,
                              disk, dateOf(now), ops[OpOf(i)].trace,
                              geminiEnd(net[i].status, net[i].data))} :
           Analysed(OpOf(i), ops[OpOf(i)].today, [net EXCEPT ![i].phase = "ended"], s)
    /\ UNCHANGED analysed

\* req.on('error') of callGeminiAPI for request i: reject(error)
OnGeminiError(i, now) ==
    /\ i \in 1..Len(net)
    /\ net[i].phase \in {"sent", "idle", "receiving"}
    /\ ops[OpOf(i)].name = "analyzeLogFiles"
    /\ \E s \in {processFrom(ops[OpOf(i)].logFiles, ops[OpOf(i)].i, ops[OpOf(i)].results,
                              disk, dateOf(now), ops[OpOf(i)].trace,
                              Exception("Error", Str("ECONNRESET")))} :
           Analysed(OpOf(i), ops[OpOf(i)].today, [net EXCEPT ![i].phase = "failed"], s)
    /\ UNCHANGED analysed

Next ==
    \/ \E cfg \in Configs : Construct(cfg)
    \/ /\ nCalls < MaxCalls
       /\ \E c \in Calls, now \in Clock, rnd \in RandomOctets :
              GenerateOAuthHeader(c[1], c[2], now, rnd)
    \/ /\ nCalls < MaxCalls
       /\ \E now \in Clock, rnd \in RandomOctets : MakeNetSuiteRequest(now, rnd)
    \/ /\ nCalls < MaxCalls
       /\ \E now \in Clock, rnd \in RandomOctets : TestAuth(now, rnd)

Spec == Init /\ [][Next]_vars

(***************************************************************************)
(* encodeRFC3986 called directly on a constructed downloader: every string *)
(* of at most MaxLen code units over EncodeAlphabet is the argument of one *)
(* call.                                                                   *)
(***************************************************************************)
\* the longest string encodeRFC3986 is called on directly
MaxLen == 2

\* A z 0, the unreserved marks - . _ ~, the sub-delimiters ! ' ( ) *, space
\* & = / : ? %, e-acute, the euro sign, and the two halves of U+1F600
EncodeAlphabet ==
    {65, 122, 48, 45, 46, 95, 126, 33, 39, 40, 41, 42, 32, 38, 61, 47, 58, 63, 37,
     233, 8364, 55357, 56832}

EncodeInputs == UNION {[1..n -> EncodeAlphabet] : n \in 0..MaxLen}

InitEncode ==
    /\ config = WithUrl(Cred1, RestletUrl)
    /\ downloader = "ready"
    /\ thrown = NoError
    /\ call \in {[made |-> FALSE, str |-> s] : s \in EncodeInputs}
    /\ caller = "none"
    /\ encodeCalls = 0
    /\ hmacCalls = 0
    /\ requests = << >>
    /\ nCalls = 0
    /\ history = << >>
    /\ net = << >>
    /\ ops = << >>
    /\ disk = NoFiles
    /\ analysed = << >>
    /\ exit = Running

\* downloader.encodeRFC3986(str), called directly
EncodeRFC3986 ==
    /\ downloader = "ready"
    /\ ~call.made
    /\ "str" \in DOMAIN call
    /\ \E result \in {encodeRFC3986(call.str)} :
           /\ call' = [made |-> TRUE, str |-> call.str, result |-> result]
           /\ thrown' = IF result = URIError
                        THEN [threw |-> TRUE, name |-> "URIError"] ELSE NoError
    /\ caller' = "encodeRFC3986"
    /\ encodeCalls' = encodeCalls + 1
    /\ nCalls' = nCalls + 1
    /\ UNCHANGED <<config, downloader, hmacCalls, requests, history>>
    /\ UNCHANGED world

NextEncode == EncodeRFC3986

SpecEncode == InitEncode /\ [][NextEncode]_vars

(***************************************************************************)
(* Several operations in a row on one downloader: at most MaxOps of them,  *)
(* each with its own readings of the clock and the random source.          *)
(***************************************************************************)
\* at most this many operations are called on the downloader in a row
MaxOps == 2

\* credentials with the characters a header is split on
Cred4 ==
    ("accountId" :> Str("A, B=") \o DQUOTE) @@ ("consumerKey" :> Str("k=1, 2"))
    @@ ("consumerSecret" :> Str("CS")) @@ ("tokenId" :> DQUOTE \o Str("T K") \o DQUOTE)
    @@ ("tokenSecret" :> Str("TS"))

SeqConfigs ==
    {WithUrl(Cred1, RestletUrl), WithUrl(Cred4, RestletUrl), WithUrl(Cred3, RestletUrl),
     WithUrl(Cred1, Str("nourl"))}

\* <<Date.now(), crypto.randomBytes(16)>> as one call reads them
Reading1 == <<1700000999, [i \in 1..16 |-> 171]>>
Reading2 == <<1700001000, [i \in 1..16 |-> (i * 37) % 256]>>
Readings == {Reading1, Reading2}

\* direct generateOAuthHeader calls: <<url, method, readings>>
SeqCalls ==
    {<<RestletUrl, Str("POST"), Reading1>>,
     <<RestletUrl, Str("POST"), Reading2>>,
     <<Str("https://a.b/app.nl?script=1&deploy=2"), Str("POST"), Reading1>>,
     <<Str("https://a.b/p?a=1&a=2"), Str("POST"), Reading1>>,
     <<Str("https://a.b/p?a=3&a=2"), Str("POST"), Reading1>>,
     <<Str("nourl"), Str("POST"), Reading1>>}

NextSeq ==
    \/ \E cfg \in SeqConfigs : Construct(cfg)
    \/ /\ nCalls < MaxOps
       /\ \E c \in SeqCalls : GenerateOAuthHeader(c[1], c[2], c[3][1], c[3][2])
    \/ /\ nCalls < MaxOps
       /\ \E rd \in Readings : MakeNetSuiteRequest(rd[1], rd[2])
    \/ /\ nCalls < MaxOps
       /\ \E rd \in Readings : TestAuth(rd[1], rd[2])

SpecSeq == Init /\ [][NextSeq]_vars

(***************************************************************************)
(* Operations in flight together on one downloader: at most MaxFlights are *)
(* started, and the responses to their requests arrive in any order.       *)
(***************************************************************************)
\* at most this many operations are started on the downloader
MaxFlights == 2

\* what the n-th operation started reads from the clock and the random source
Tick(n) == <<1700000999 + n, [i \in 1..16 |-> (n * 37 + i) % 256]>>

\* responses: the status code and the chunks of the body
FlightReplies == {<<200, <<stringify(Success(<<LogA>>))>>>>, <<401, << >>>>}

FlightConfigs == {WithUrl(Cred1, RestletUrl), WithUrl(Cred1, Str("nourl"))}

NextFlight ==
    \/ \E cfg \in FlightConfigs : Construct(cfg)
    \/ /\ nCalls < MaxFlights
       /\ \E rd \in {Tick(nCalls)} : GenerateOAuthHeader(RestletUrl, Str("POST"), rd[1], rd[2])
    \/ /\ nCalls < MaxFlights
       /\ \E rd \in {Tick(nCalls)} : MakeNetSuiteRequest(rd[1], rd[2])
    \/ /\ nCalls < MaxFlights
       /\ \E rd \in {Tick(nCalls)} : DownloadTodaysDueDateLogs(rd[1], rd[2])
    \/ /\ nCalls < MaxFlights
       /\ \E rd \in {Tick(nCalls)} : TestAuth(rd[1], rd[2])
    \/ \E i \in 1..Len(net), reply \in FlightReplies : OnResponse(i, reply[1], reply[2])
    \/ \E i \in 1..Len(net) : OnData(i)
    \/ \E i \in 1..Len(net), now \in LaterClock : OnEnd(i, now)
    \/ \E i \in 1..Len(net), now \in LaterClock : OnError(i, now)

SpecFlight == Init /\ [][NextFlight]_vars

(***************************************************************************)
(* One run of run-analysis.js: the main entry, then the response to the    *)
(* request of its download.                                                *)
(***************************************************************************)
WithKey(cfg) == cfg @@ ("geminiApiKey" :> Str("GK"))

\* the configuration the environment gives
RunConfigs ==
    {WithKey(WithUrl(Cred1, RestletUrl)), WithKey(WithUrl(Cred1, Str("nourl"))),
     WithUrl(Cred1, RestletUrl), WithKey(Without(WithUrl(Cred1, RestletUrl), "tokenSecret"))}

NextRun ==
    \/ \E cfg \in RunConfigs, rd \in Readings : Main(cfg, rd[1], rd[2])
    \/ \E i \in 1..Len(net), status \in Statuses, chunks \in Bodies :
           OnResponse(i, status, chunks)
    \/ \E i \in 1..Len(net) : OnData(i)
    \/ \E i \in 1..Len(net), now \in LaterClock : OnEnd(i, now)
    \/ \E i \in 1..Len(net), now \in LaterClock : OnError(i, now)

SpecRun == Init /\ [][NextRun]_vars

(***************************************************************************)
(* downloadTodaysDueDateLogs called directly: at most MaxDownloads calls,  *)
(* each answered with any of the bodies, or not at all.                    *)
(***************************************************************************)
\* at most this many downloads are started
MaxDownloads == 1

NextDownload ==
    \/ \E cfg \in FlightConfigs : Construct(cfg)
    \/ /\ nCalls < MaxDownloads
       /\ \E rd \in {Tick(nCalls)} : DownloadTodaysDueDateLogs(rd[1], rd[2])
    \/ \E i \in 1..Len(net), status \in Statuses, chunks \in Bodies :
           OnResponse(i, status, chunks)
    \/ \E i \in 1..Len(net) : OnData(i)
    \/ \E i \in 1..Len(net), now \in LaterClock : OnEnd(i, now)
    \/ \E i \in 1..Len(net), now \in LaterClock : OnError(i, now)

SpecDownload == Init /\ [][NextDownload]_vars

(***************************************************************************)
(* makeNetSuiteRequest over time: at most MaxRequests calls.  The timer of *)
(* req.setTimeout fires if the socket stays idle, and a response that has  *)
(* begun is delivered to its end; whether a response begins, and whether   *)
(* the connection fails, is up to the server and the network.              *)
(***************************************************************************)
\* at most this many requests are made
MaxRequests == 1

NextLive ==
    \/ \E cfg \in FlightConfigs : Construct(cfg)
    \/ /\ nCalls < MaxRequests
       /\ \E rd \in {Tick(nCalls)} : MakeNetSuiteRequest(rd[1], rd[2])
    \/ \E i \in 1..Len(net), status \in Statuses, chunks \in Bodies :
           OnResponse(i, status, chunks)
    \/ \E i \in 1..Len(net) : OnData(i)
    \/ \E i \in 1..Len(net), now \in LaterClock : OnEnd(i, now)
    \/ \E i \in 1..Len(net), now \in LaterClock : OnError(i, now)
    \/ \E i \in 1..Len(net) : OnTimeout(i)

\* the steps in which the response to request i ends: those of OnEnd(i, now)
Ends(i) ==
    /\ i \in 1..Len(net)
    /\ net[i].phase = "receiving"
    /\ net[i].chunks = << >>
    /\ net' = [net EXCEPT ![i].phase = "ended"]

SpecLive ==
    /\ Init
    /\ [][NextLive]_vars
    /\ \A i \in 1..MaxRequests :
           /\ WF_vars(OnTimeout(i))
           /\ WF_vars(OnData(i))
           /\ WF_net(Ends(i))

(***************************************************************************)
(* One call of analyzeLogFiles on a disk that holds the log files: lists   *)
(* of at most MaxFiles files, each request answered or failed.             *)
(***************************************************************************)
\* at most this many log files are handed to analyzeLogFiles
MaxFiles == 2

FileA == JObj(("name" :> JStr(Str("a.txt"))) @@ ("path" :> JStr(Str("/w/logs/a.txt")))
              @@ ("type" :> JStr(Str("duedate"))))
FileB == JObj(("name" :> JStr(Str("b.txt"))) @@ ("path" :> JStr(Str("/w/logs/b.txt")))
              @@ ("type" :> JStr(Str("duedate"))))
\* an entry whose file is not on the disk
FileGone == JObj(("name" :> JStr(Str("gone.txt"))) @@ ("path" :> JStr(Str("/w/logs/gone.txt")))
                 @@ ("type" :> JStr(Str("duedate"))))

\* the arguments of analyzeLogFiles: arrays of log files, and the result
\* object of the downloader
LogFileLists ==
    {JArr(l) : l \in {l \in {<< >>, <<FileA>>, <<FileGone>>, <<FileA, FileB>>,
                               <<FileGone, FileA>>, <<FileA, FileB, FileGone>>} :
                         Len(l) <= MaxFiles}}
    \cup {JObj("logFiles" :> JArr(<<FileA>>))}

\* the disk before the call: the log files, without and with the errors
\* directory
DiskWithLogs ==
    [dirs |-> {Str("/"), Cwd, logsDirOf},
     files |-> (Str("/w/logs/a.txt") :> Str("x")) @@ (Str("/w/logs/b.txt") :> Str("y"))]

AnalyseDisks == {DiskWithLogs, mkdirIfMissing(DiskWithLogs, errorsDirOf)}

\* the answers of the Gemini API: the status code and the chunks of the body
GeminiReplies ==
    {<<200, <<stringify(v)>>>> : v \in GeminiValues}
    \cup {<<500, <<Str("busy")>>>>, <<200, <<Str("<html>")>>>>}

InitAnalyse ==
    /\ config = WithKey(WithUrl(Cred1, RestletUrl))
    /\ downloader = "ready"
    /\ thrown = NoError
    /\ call = NoCall
    /\ caller = "none"
    /\ encodeCalls = 0
    /\ hmacCalls = 0
    /\ requests = << >>
    /\ nCalls = 0
    /\ history = << >>
    /\ net = << >>
    /\ ops = << >>
    /\ disk \in AnalyseDisks
    /\ analysed = << >>
    /\ exit = Running

NextAnalyse ==
    \/ \E logFiles \in LogFileLists, now \in LaterClock : AnalyzeLogFiles(logFiles, now)
    \/ \E i \in 1..Len(net), reply \in GeminiReplies : OnResponse(i, reply[1], reply[2])
    \/ \E i \in 1..Len(net) : OnData(i)
    \/ \E i \in 1..Len(net), now \in LaterClock : OnGeminiEnd(i, now)
    \/ \E i \in 1..Len(net), now \in LaterClock : OnGeminiError(i, now)

SpecAnalyse == InitAnalyse /\ [][NextAnalyse]_vars

(***************************************************************************)
(* The parameter string built from one parameter set whose properties were *)
(* created in different orders: at most MaxOrders orders per set.          *)
(***************************************************************************)
\* at most this many creation orders of one parameter set are canonicalised
MaxOrders == 2

\* parameter sets, each in one creation order: the RESTlet's query after two
\* oauth parameters, array index keys, and keys the encoder escapes
CanonSets ==
    {<<<<Str("oauth_nonce"), Str("ab")>>, <<Str("oauth_consumer_key"), Str("CK")>>,
       <<Str("script"), Str("1")>>, <<Str("deploy"), Str("1")>>>>,
     <<<<Str("10"), Str("x")>>, <<Str("9"), Str("y")>>, <<Str("b"), Str("z")>>>>,
     <<<<Str("Z"), Str("1")>>, <<Str("a"), Str("2")>>, <<Str("a b"), Str("c&d")>>>>}

\* the creation orders of a parameter set
Orders(entries) ==
    {[i \in 1..Len(entries) |-> entries[p[i]]] : p \in Permutations(1..Len(entries))}

InitCanon ==
    /\ config = WithUrl(Cred1, RestletUrl)
    /\ downloader = "ready"
    /\ thrown = NoError
    /\ call \in {[made |-> FALSE, entries |-> e] : e \in CanonSets}
    /\ caller = "none"
    /\ encodeCalls = 0
    /\ hmacCalls = 0
    /\ requests = << >>
    /\ nCalls = 0
    /\ history = << >>
    /\ net = << >>
    /\ ops = << >>
    /\ disk = NoFiles
    /\ analysed = << >>
    /\ exit = Running

\* lines 54-59 run on allParams with its properties created in the order
\* entries
Canonicalise(entries) ==
    /\ nCalls < MaxOrders
    /\ history' = Append(history, [entries |-> entries, keys |-> objectKeys(entries),
                                    paramString |-> canonicalise(entries)])
    /\ caller' = "canonicalise"
    /\ encodeCalls' = encodeCalls + 2 * Len(entries)
    /\ nCalls' = nCalls + 1
    /\ UNCHANGED <<config, downloader, thrown, call, hmacCalls, requests>>
    /\ UNCHANGED world

NextCanon == \E entries \in Orders(call.entries) : Canonicalise(entries)

SpecCanon == InitCanon /\ [][NextCanon]_vars

(***************************************************************************)
(* What the claims read.                                                   *)
(***************************************************************************)
\* the last generateOAuthHeader call returned a header
Returned == call.made /\ ~call.threw

\* the unreserved characters of RFC 3986: A-Z a-z 0-9 - . _ ~
Unreserved(c) == IsAlnum(c) \/ c \in {45, 46, 95, 126}

\* s with every unreserved character kept and every other character
\* replaced by %XX, upper-case, for each octet of its UTF-8 form
PercentEncoded(s) ==
    Concat([k \in 1..Len(s) |->
               IF Unreserved(s[k]) THEN <<s[k]>>
               ELSE IF IsLowSurrogate(s[k]) THEN << >>
               ELSE PercentOctets(Utf8(CodePointAt(s, k).cp))])

\* the credential fields
CredentialFields == {"accountId", "consumerKey", "consumerSecret", "tokenId", "tokenSecret"}

\* a credential field of cfg is missing or empty
MissingCredential(cfg) ==
    \E k \in CredentialFields : k \notin DOMAIN cfg \/ cfg[k] = << >>

(***************************************************************************)
(* C1.  A configuration in which a credential field (accountId,            *)
(* consumerKey, consumerSecret, tokenId, tokenSecret) is missing or empty  *)
(* is rejected by the constructor with the error "Missing required         *)
(* configuration" that lists the field; no encoder call, no HMAC, no       *)
(* generateOAuthHeader call and no request is ever made with it.           *)
(***************************************************************************)
C1_MissingCredentialRejected ==
    (downloader # "none" /\ MissingCredential(config)) =>
        /\ downloader = "rejected"
        /\ thrown.threw
        /\ thrown.name = "Error"
        /\ thrown.message = "Missing required configuration"
        /\ \A k \in CredentialFields :
               (k \notin DOMAIN config \/ config[k] = << >>) =>
                   \E i \in 1..Len(thrown.missing) : thrown.missing[i] = k
        /\ encodeCalls = 0
        /\ hmacCalls = 0
        /\ call = NoCall
        /\ requests = << >>

\* the constructor has rejected a configuration whose token secret is empty
C1_Witness ==
    /\ downloader = "rejected"
    /\ "tokenSecret" \in DOMAIN config
    /\ config["tokenSecret"] = << >>
    /\ \A k \in CredentialFields \ {"tokenSecret"} : k \in DOMAIN config /\ config[k] # << >>

(***************************************************************************)
(* C2.  encodeRFC3986 keeps each unreserved character (A-Z a-z 0-9 - . _   *)
(* ~) and replaces every other character, among them ! ' ( ) * space & =   *)
(* / : ?, by %XX with upper-case hex digits for each octet of its UTF-8    *)
(* form.  (On a string with a lone surrogate, which has no UTF-8 form, the *)
(* call throws URIError.)                                                  *)
(***************************************************************************)
\* arguments and the results the claim names for them
C2_Cases ==
    {<<Str("!"), Str("%21")>>, <<Str("'"), Str("%27")>>, <<Str("("), Str("%28")>>,
     <<Str(")"), Str("%29")>>, <<Str("*"), Str("%2A")>>, <<Str(" "), Str("%20")>>,
     <<Str("&"), Str("%26")>>, <<Str("="), Str("%3D")>>, <<Str("/"), Str("%2F")>>,
     <<Str(":"), Str("%3A")>>, <<Str("?"), Str("%3F")>>, <<Str("%"), Str("%25")>>,
     <<Str("-."), Str("-.")>>, <<Str("_~"), Str("_~")>>, <<Str("Az"), Str("Az")>>,
     <<Str("0"), Str("0")>>, <<Str(""), Str("")>>,
     <<<<233>>, Str("%C3%A9")>>, <<<<8364>>, Str("%E2%82%AC")>>,
     <<<<55357, 56832>>, Str("%F0%9F%98%80")>>}

C2_EncoderEscapesAllButUnreserved ==
    (caller = "encodeRFC3986" /\ call.made) =>
        /\ HasLoneSurrogate(call.str) => call.result = URIError /\ thrown.name = "URIError"
        /\ ~HasLoneSurrogate(call.str) =>
               /\ call.result = PercentEncoded(call.str)
               /\ thrown = NoError
        /\ \A c \in C2_Cases : call.str = c[1] => call.result = c[2]

\* "!*" has been encoded as "%21%2A"
C2_Witness ==
    /\ caller = "encodeRFC3986"
    /\ call.made
    /\ call.str = Str("!*")
    /\ call.result = Str("%21%2A")

(***************************************************************************)
(* Reading a parameter string and a header back.                           *)
(***************************************************************************)
\* the key=value pieces of the signed parameter string
ParamPieces == split(call.paramString, 38)

\* the text of a piece before, and after, its first '='
KeyOf(piece) == SubSeq(piece, 1, IndexOfAny(piece, {61}, 1) - 1)
ValueOf(piece) == SubSeq(piece, IndexOfAny(piece, {61}, 1) + 1, Len(piece))

\* the '&'-separated components of the signature base string
BaseStringParts == split(call.baseString, 38)

\* the name="value" pieces of the header, after "OAuth " and without the
\* blank that follows each comma
HeaderPieces ==
    LET parts == split(SubSeq(call.header, 7, Len(call.header)), 44)
    IN  [i \in 1..Len(parts) |-> IF i = 1 THEN parts[i] ELSE SubSeq(parts[i], 2, Len(parts[i]))]

\* a quoted value without its quotes
Unquoted(v) == SubSeq(v, 2, Len(v) - 1)

\* s in double quotes
InQuotes(s) == DQUOTE \o s \o DQUOTE

(***************************************************************************)
(* C3.  The pairs of the signed parameter string are in ascending order of *)
(* their percent-encoded keys, pairs with the same encoded key in order of *)
(* their percent-encoded values.                                           *)
(***************************************************************************)
C3_SortedByEncodedKey ==
    Returned =>
        LET pieces == ParamPieces
        IN  \A i \in 1..(Len(pieces) - 1) :
                \/ LessStr(KeyOf(pieces[i]), KeyOf(pieces[i + 1]))
                \/ /\ KeyOf(pieces[i]) = KeyOf(pieces[i + 1])
                   /\ ~LessStr(ValueOf(pieces[i + 1]), ValueOf(pieces[i]))

\* the keys a- and a/ were signed in the order of the raw keys: a%2F, which
\* is smaller than a-, comes second
C3_Witness ==
    /\ Returned
    /\ call.url = Str("https://a.b/p?a-=1&a/=2")
    /\ ParamPieces[1] = Str("a-=1")
    /\ ParamPieces[2] = Str("a%2F=2")
    /\ LessStr(Str("a%2F"), Str("a-"))

(***************************************************************************)
(* C4.  Every key/value pair of the URL's query string, each occurrence of *)
(* a repeated key included, is decoded and is a key=value pair of its own  *)
(* in the signed parameter string.                                         *)
(***************************************************************************)
C4_EveryQueryPairSigned ==
    Returned =>
        LET pairs  == searchParams(URL(call.url))
            pieces == ParamPieces
        IN  \A j \in 1..Len(pairs) :
                Cardinality({i \in 1..Len(pieces) :
                                pieces[i] = PercentEncoded(pairs[j][1]) \o Str("=")
                                            \o PercentEncoded(pairs[j][2])})
                >= Cardinality({n \in 1..Len(pairs) : pairs[n] = pairs[j]})

\* of a=1 and a=2 only a=2 was signed
C4_Witness ==
    /\ Returned
    /\ call.url = Str("https://a.b/p?a=1&a=2")
    /\ \E i \in 1..Len(ParamPieces) : ParamPieces[i] = Str("a=2")
    /\ \A i \in 1..Len(ParamPieces) : ParamPieces[i] # Str("a=1")

(***************************************************************************)
(* C5.  The base URL in the signature base string is scheme "://" host,    *)
(* the port if it is not the scheme's default, and the path; it holds      *)
(* neither the query string nor the fragment of the URL.                   *)
(***************************************************************************)
\* URLs and the base URLs the claim names for them
C5_Cases ==
    {<<RestletUrl, Str("https://a.b/app.nl")>>,
     <<Str("https://a.b/p?a=1&a=2"), Str("https://a.b/p")>>,
     <<Str("https://a.b:8443/p?x=1#frag"), Str("https://a.b:8443/p")>>,
     <<Str("https://a.b:443/p"), Str("https://a.b/p")>>,
     <<Str("http://a.b:443?oauth_nonce=zz&oauth_token=T"), Str("http://a.b:443/")>>,
     <<Str("https://a.b:8443/r?deploy=2&deploy=1#top"), Str("https://a.b:8443/r")>>,
     <<Str("https://1234567-sb1.suitetalk.api.netsuite.com/services/rest/record/v1/metadata-catalog"),
       Str("https://1234567-sb1.suitetalk.api.netsuite.com/services/rest/record/v1/metadata-catalog")>>}

C5_BaseUrlWithoutQueryAndFragment ==
    Returned =>
        /\ \A i \in 1..Len(call.baseUrl) : call.baseUrl[i] \notin {63, 35}
        /\ \A c \in C5_Cases : call.url = c[1] => call.baseUrl = c[2]
        /\ Len(BaseStringParts) = 3
        /\ BaseStringParts[2] = PercentEncoded(call.baseUrl)

\* a URL with a port, a query string and a fragment was signed
C5_Witness ==
    /\ Returned
    /\ call.url = Str("https://a.b:8443/p?x=1#frag")
    /\ BaseStringParts[2] = Str("https%3A%2F%2Fa.b%3A8443%2Fp")

(***************************************************************************)
(* C6.  The method component of the signature base string is the method    *)
(* token in upper case, whatever the case of the token that was passed.    *)
(***************************************************************************)
C6_MethodUpperCased ==
    Returned => BaseStringParts[1] = toUpperCase(call.method)

\* the base string of a call with method 'post' starts with 'post&'
C6_Witness ==
    /\ Returned
    /\ call.method = Str("post")
    /\ SubSeq(call.baseString, 1, 5) = Str("post&")

(***************************************************************************)
(* C7.  The signing key is the percent-encoded consumer secret, '&', the   *)
(* percent-encoded token secret.  (A configuration without a token secret, *)
(* or with an empty one, never gets as far as a signing key.)              *)
(***************************************************************************)
C7_SigningKey ==
    /\ Returned =>
           /\ call.signingKey = PercentEncoded(config["consumerSecret"]) \o Str("&")
                                \o PercentEncoded(config["tokenSecret"])
           /\ Len(split(call.signingKey, 38)) = 2
           /\ config["consumerSecret"] = Str("c&s") /\ config["tokenSecret"] = Str("t=s*")
                  => call.signingKey = Str("c%26s&t%3Ds%2A")
    /\ (downloader # "none" /\ Falsy(Prop(config, "tokenSecret"))) => ~call.made

\* a key was made of the secrets c&s and t=s*
C7_Witness ==
    /\ Returned
    /\ config["consumerSecret"] = Str("c&s")
    /\ config["tokenSecret"] = Str("t=s*")
    /\ call.signingKey = Str("c%26s&t%3Ds%2A")

(***************************************************************************)
(* C8.  A returned header is 'OAuth ' and then, separated by ', ', the     *)
(* pairs realm, oauth_consumer_key, oauth_nonce, oauth_signature,          *)
(* oauth_signature_method="HMAC-SHA256", oauth_timestamp, oauth_token,     *)
(* oauth_version="1.0", in this order, each as name="percent-encoded       *)
(* value".                                                                 *)
(***************************************************************************)
C8_Expected ==
    Concat(<<Str("OAuth realm="), InQuotes(PercentEncoded(config["accountId"])),
             Str(", oauth_consumer_key="), InQuotes(PercentEncoded(config["consumerKey"])),
             Str(", oauth_nonce="), InQuotes(PercentEncoded(call.nonce)),
             Str(", oauth_signature="), InQuotes(PercentEncoded(call.signature)),
             Str(", oauth_signature_method="), InQuotes(Str("HMAC-SHA256")),
             Str(", oauth_timestamp="), InQuotes(PercentEncoded(toString10(call.timestamp))),
             Str(", oauth_token="), InQuotes(PercentEncoded(config["tokenId"])),
             Str(", oauth_version="), InQuotes(Str("1.0"))>>)

C8_HeaderForm ==
    Returned =>
        /\ call.header = C8_Expected
        /\ Len(HeaderPieces) = 8
        /\ caller # "generateOAuthHeader" =>
               requests[Len(requests)].Authorization = call.header

\* a header for credentials whose characters need escaping
C8_Witness ==
    /\ Returned
    /\ config["accountId"] = Str("AC 1")
    /\ HeaderPieces[1] = Str("realm=") \o InQuotes(Str("AC%201"))
    /\ HeaderPieces[2] = Str("oauth_consumer_key=") \o InQuotes(Str("C%21K"))
    /\ HeaderPieces[7] = Str("oauth_token=") \o InQuotes(Str("T%2FK%C3%A9"))
    /\ \E i \in 1..Len(call.signature) : call.signature[i] = 61

(***************************************************************************)
(* C9.  As claimed: the pairs of a returned header, realm included, are    *)
(* sorted alphabetically by parameter name.                                *)
(***************************************************************************)
C9_AllSortedByName ==
    Returned =>
        LET pieces == HeaderPieces
        IN  \A i \in 1..(Len(pieces) - 1) : LessStr(KeyOf(pieces[i]), KeyOf(pieces[i + 1]))

(***************************************************************************)
(* C9, amended.  In a returned header realm is the first pair, and the     *)
(* seven oauth_* pairs follow it sorted alphabetically by parameter name.  *)
(***************************************************************************)
C9_RealmThenSortedByName ==
    Returned =>
        LET pieces == HeaderPieces
        IN  /\ Len(pieces) = 8
            /\ KeyOf(pieces[1]) = Str("realm")
            /\ \A i \in 2..Len(pieces) : SubSeq(KeyOf(pieces[i]), 1, 6) = Str("oauth_")
            /\ \A i \in 2..(Len(pieces) - 1) : LessStr(KeyOf(pieces[i]), KeyOf(pieces[i + 1]))

\* a header whose first name, realm, is greater than its second
C9_Witness ==
    /\ Returned
    /\ KeyOf(HeaderPieces[1]) = Str("realm")
    /\ KeyOf(HeaderPieces[2]) = Str("oauth_consumer_key")
    /\ LessStr(KeyOf(HeaderPieces[2]), KeyOf(HeaderPieces[1]))

(***************************************************************************)
(* C10.  For each of oauth_consumer_key, oauth_nonce,                      *)
(* oauth_signature_method, oauth_timestamp, oauth_token and oauth_version, *)
(* the signed parameter string holds the pair with the value the returned  *)
(* header carries for it, whatever the URL's query parameters are named.   *)
(***************************************************************************)
OAuthNames ==
    {Str("oauth_consumer_key"), Str("oauth_nonce"), Str("oauth_signature_method"),
     Str("oauth_timestamp"), Str("oauth_token"), Str("oauth_version")}

C10_ProtocolParamsSigned ==
    Returned =>
        LET sent   == HeaderPieces
            signed == ParamPieces
        IN  \A name \in OAuthNames :
                \E i \in 1..Len(sent) :
                    /\ KeyOf(sent[i]) = name
                    /\ \E j \in 1..Len(signed) :
                           signed[j] = name \o Str("=") \o Unquoted(ValueOf(sent[i]))

\* the query parameters oauth_nonce and oauth_token took the place of the
\* protocol parameters in what was signed; the header carries the others
C10_Witness ==
    /\ Returned
    /\ call.url = Str("http://a.b:443?oauth_nonce=zz&oauth_token=T")
    /\ \E j \in 1..Len(ParamPieces) : ParamPieces[j] = Str("oauth_nonce=zz")
    /\ \E j \in 1..Len(ParamPieces) : ParamPieces[j] = Str("oauth_token=T")
    /\ HeaderPieces[3] = Str("oauth_nonce=") \o InQuotes(call.nonce)
    /\ HeaderPieces[7] = Str("oauth_token=") \o InQuotes(Str("TK"))
    /\ call.nonce # Str("zz")

(***************************************************************************)
(* C11.  For fixed credentials, method, URL, nonce and timestamp, two      *)
(* signing calls produce the same base string, signature and header,       *)
(* whatever calls were made before: the call just made gave what the same  *)
(* call gives as the first call on a downloader constructed from the same  *)
(* configuration, and two calls of one downloader with the same method,    *)
(* URL, nonce and timestamp agree in everything.                           *)
(***************************************************************************)
\* the call alone: the first call on a fresh downloader
Alone(h) ==
    [made |-> TRUE]
    @@ generateOAuthHeader(config, h.call.url, h.call.method, h.now, h.rnd)

SameInputs(a, b) ==
    /\ a.url = b.url
    /\ a.method = b.method
    /\ a.nonce = b.nonce
    /\ a.timestamp = b.timestamp

C12_ConfigUnchanged == [][downloader # "none" => config' = config]_vars

\* a download has returned and a testAuth has resolved on a configuration
\* that is still the one the downloader was constructed with
C12_Witness ==
    /\ config = WithUrl(Cred1, RestletUrl)
    /\ \E k \in 1..Len(ops) :
           ops[k].name = "downloadTodaysDueDateLogs" /\ ops[k].state = "fulfilled"
    /\ \E k \in 1..Len(ops) : ops[k].name = "testAuth" /\ ops[k].state = "fulfilled"

\* a download failed at signing, on a configuration still as constructed
C12_WitnessFailed ==
    /\ config = WithUrl(Cred1, Str("nourl"))
    /\ \E k \in 1..Len(ops) :
           ops[k].name = "downloadTodaysDueDateLogs" /\ ops[k].state = "rejected"

(***************************************************************************)
(* C13                                                                     *)
(***************************************************************************)
\* the signing calls made for request i
SigningCallsFor(i) == {k \in 1..Len(history) : history[k].request = i}

\* the call h made its nonce and timestamp from its own readings of the
\* random source and the clock, and its header carries them
OwnNonceAndTimestamp(h) ==
    /\ h.call.nonce = nonceOf(h.rnd)
    /\ h.call.timestamp = timestampOf(h.now)
    /\ IndexOf(h.call.header, Quoted(Str("oauth_nonce"), h.call.nonce), 1) > 0
    /\ IndexOf(h.call.header,
               Quoted(Str("oauth_timestamp"), toString10(h.call.timestamp)), 1) > 0

\* C13: every request handed to https.request by makeNetSuiteRequest or
\* testAuth carries the header of exactly one signing call, made by that
\* operation for that request, with the nonce and timestamp that call
\* generated; no signing call serves two requests.
C13_SignedPerRequest ==
    /\ Len(net) = Len(requests)
    /\ \A i \in 1..Len(requests) :
           /\ Cardinality(SigningCallsFor(i)) = 1
           /\ \A k \in SigningCallsFor(i) :
                  /\ history[k].who \in {"makeNetSuiteRequest", "testAuth"}
                  /\ ~history[k].call.threw
                  /\ requests[i].Authorization = history[k].call.header
                  /\ requests[i].url = history[k].call.url
                  /\ requests[i].method = history[k].call.method
                  /\ OwnNonceAndTimestamp(history[k])
    /\ \A k \in 1..Len(history) : history[k].request \in 0..Len(requests)

\* two requests were sent, one by downloadTodaysDueDateLogs and one by
\* testAuth, each signed by a call of its own with a nonce of its own
C13_Witness ==
    /\ Len(requests) = 2
    /\ Len(history) = 2
    /\ {history[1].who, history[2].who} = {"makeNetSuiteRequest", "testAuth"}
    /\ history[1].request = 1
    /\ history[2].request = 2
    /\ history[1].call.nonce # history[2].call.nonce
    /\ requests[1].Authorization # requests[2].Authorization


(***************************************************************************)
(* C14                                                                     *)
(***************************************************************************)
\* C14 as stated: no two signing operations on one downloader (one token)
\* use the same nonce.
C14_NoNonceReused ==
    \A i, j \in 1..Len(history) :
        i # j => history[i].call.nonce # history[j].call.nonce

\* C14, amended: the nonce of a signing operation is the 32 hexadecimal
\* digits of the 16 octets the operation itself read from the random
\* source, so two operations use the same nonce exactly when the random
\* source gave both the same octets.
C14_NonceFromOwnOctets ==
    \A i, j \in 1..Len(history) :
        /\ Len(history[i].call.nonce) = 32
        /\ (history[i].call.nonce = history[j].call.nonce) <=> (history[i].rnd = history[j].rnd)

\* two operations signed after reading different octets
C14_Witness ==
    /\ Len(history) = 2
    /\ ~history[1].call.threw
    /\ ~history[2].call.threw
    /\ history[1].rnd # history[2].rnd
    /\ history[1].call.nonce # history[2].call.nonce


(***************************************************************************)
(* C15                                                                     *)
(***************************************************************************)
\* the strings a and b differ in one code unit
OneByteApart(a, b) ==
    /\ Len(a) = Len(b)
    /\ Cardinality({k \in 1..Len(a) : a[k] # b[k]}) = 1

\* the inputs of a call, on one configuration: URL, method, nonce, timestamp
InputsOf(c) == <<c.url, c.method, c.nonce, toString10(c.timestamp)>>

\* the calls a and b differ in a single byte of a single input
InputsOneByteApart(a, b) ==
    \E k \in 1..4 :
        /\ OneByteApart(InputsOf(a)[k], InputsOf(b)[k])
        /\ \A l \in (1..4) \ {k} : InputsOf(a)[l] = InputsOf(b)[l]

\* C15: two signing calls whose inputs differ in a single byte sign
\* different data (signing key and base string) and give different
\* signatures.
C15_OneByteChangesSignedData ==
    \A i, j \in 1..Len(history) :
        (/\ ~history[i].call.threw
         /\ ~history[j].call.threw
         /\ InputsOneByteApart(history[i].call, history[j].call))
        => /\ <<history[i].call.signingKey, history[i].call.baseString>>
               # <<history[j].call.signingKey, history[j].call.baseString>>
           /\ history[i].call.signature # history[j].call.signature

\* the URLs of two calls differ in one byte of a query value that a later
\* pair of the same name overrides: the same data is signed
C15_Witness ==
    /\ Len(history) = 2
    /\ history[1].call.url = Str("https://a.b/p?a=1&a=2")
    /\ history[2].call.url = Str("https://a.b/p?a=3&a=2")
    /\ ~history[1].call.threw
    /\ ~history[2].call.threw
    /\ InputsOneByteApart(history[1].call, history[2].call)
    /\ history[1].call.baseString = history[2].call.baseString
    /\ history[1].call.signingKey = history[2].call.signingKey
    /\ history[1].call.signature = history[2].call.signature

\* deploy=1 changed to deploy=2 changes the base string and the signature
C15_WitnessDeploy ==
    /\ Len(history) = 2
    /\ history[1].call.url = Str("https://a.b/app.nl?script=1&deploy=1")
    /\ history[2].call.url = Str("https://a.b/app.nl?script=1&deploy=2")
    /\ ~history[1].call.threw
    /\ ~history[2].call.threw
    /\ InputsOneByteApart(history[1].call, history[2].call)
    /\ history[1].call.baseString # history[2].call.baseString
    /\ history[1].call.signature # history[2].call.signature


(***************************************************************************)
(* C16                                                                     *)
(***************************************************************************)
\* String.prototype.split(sep) for a separator that cannot overlap itself
splitOn(s, sep) ==
    LET at   == {j \in 1..(Len(s) - Len(sep) + 1) : SubSeq(s, j, j + Len(sep) - 1) = sep}
        cuts == {1 - Len(sep)} \cup at \cup {Len(s) + 1}
    IN  [n \in 1..(Cardinality(cuts) - 1) |->
            LET from == CHOOSE a \in cuts : Cardinality({b \in cuts : b < a}) = n - 1
                to   == Min({b \in cuts : b > from})
            IN  SubSeq(s, from + Len(sep), to - 1)]

\* decodeURIComponent
decodeURIComponent(s) == Utf8Decode(PercentDecodeBytes(s))

\* a header read back: the part after "OAuth " split on ", ", each piece
\* name="value" taken apart at its first '=', the value without its quotes
\* percent-decoded
ReadBack(header) ==
    LET pieces == splitOn(SubSeq(header, 7, Len(header)), Str(", "))
    IN  [i \in 1..Len(pieces) |->
            LET value == ValueOf(pieces[i])
            IN  [name   |-> KeyOf(pieces[i]),
                 quoted |-> Len(value) >= 2 /\ Head(value) = 34 /\ value[Len(value)] = 34,
                 value  |-> decodeURIComponent(Unquoted(value))]]

\* the parameter set the header of call c on configuration cfg was built
\* from: the oauthParams literal, the signature and the realm
ParameterSet(cfg, c) ==
    {<<k, c.oauthParams[k]>> : k \in DOMAIN c.oauthParams}
    \cup {<<Str("oauth_signature"), c.signature>>, <<Str("realm"), toStr(Prop(cfg, "accountId"))>>}

\* C16: the header of every call that returned starts with "OAuth " and,
\* split on ", " and percent-decoded pair by pair, gives back exactly the
\* parameter set it was built from, one quoted pair per parameter.
C16_HeaderRoundTrip ==
    (call.made /\ ~call.threw) =>
        LET readBack == ReadBack(call.header)
        IN  /\ SubSeq(call.header, 1, 6) = Str("OAuth ")
            /\ Len(readBack) = 8
            /\ \A i \in 1..Len(readBack) : readBack[i].quoted
            /\ {<<readBack[i].name, readBack[i].value>> : i \in 1..Len(readBack)}
                   = ParameterSet(config, call)

\* a header was returned for credentials that hold ', ', '"', '=' and a space
C16_Witness ==
    /\ call.made
    /\ ~call.threw
    /\ config = WithUrl(Cred4, RestletUrl)
    /\ IndexOf(call.header, Str("realm=") \o DQUOTE \o Str("A%2C%20B%3D%22") \o DQUOTE, 1) > 0
    /\ IndexOf(call.header, Str("%22T%20K%22"), 1) > 0
    /\ <<Str("oauth_token"), DQUOTE \o Str("T K") \o DQUOTE>> \in ParameterSet(config, call)


(***************************************************************************)
(* C17                                                                     *)
(***************************************************************************)
\* the properties of an object whatever the order they were created in
PropertiesOf(entries) == {entries[i] : i \in 1..Len(entries)}

\* C17: the parameter string does not depend on the order in which the
\* properties of the parameter object were created: two objects with the
\* same properties give the same string, the one the signer's sorted keys
\* give.
C17_CreationOrderIrrelevant ==
    \A i, j \in 1..Len(history) :
        PropertiesOf(history[i].entries) = PropertiesOf(history[j].entries) =>
            /\ history[i].paramString = history[j].paramString
            /\ history[i].paramString
                   = LET allParams == [k \in {e[1] : e \in PropertiesOf(history[i].entries)} |->
                                          (CHOOSE e \in PropertiesOf(history[i].entries) : e[1] = k)[2]]
                     IN  paramStringOf(sortedKeys(allParams), allParams)

\* one parameter set was canonicalised from two creation orders for which
\* Object.keys gives different key lists
C17_Witness ==
    /\ Len(history) = 2
    /\ PropertiesOf(history[1].entries) = PropertiesOf(history[2].entries)
    /\ history[1].entries # history[2].entries
    /\ history[1].keys # history[2].keys
    /\ history[1].paramString
           = Str("deploy=1&oauth_consumer_key=CK&oauth_nonce=ab&script=1")
    /\ history[2].paramString = history[1].paramString


(***************************************************************************)
(* C18                                                                     *)
(***************************************************************************)
\* new URL(url) throws, or a credential of cfg is not well-formed UTF-16
CannotSign(cfg, url) ==
    \/ URL(url).invalid
    \/ \E f \in {"accountId", "consumerKey", "consumerSecret", "tokenId", "tokenSecret"} :
           HasLoneSurrogate(toStr(Prop(cfg, f)))

\* the signing calls made for a request promise, in the order they were made
RequestCalls == SelectSeq(history, LAMBDA h : h.who # "generateOAuthHeader")

\* C18: a signing call fails exactly when its URL is malformed or an input
\* cannot be percent-encoded, whatever the calls before it did; a failed
\* call throws TypeError or URIError and leaves no header, no request is
\* sent for it, and the promise of the operation that made it is rejected
\* with that error.
C18_FailureForThatCallOnly ==
    /\ \A k \in 1..Len(history) :
           /\ history[k].call.threw <=> CannotSign(config, history[k].call.url)
           /\ history[k].call.threw =>
                  /\ "header" \notin DOMAIN history[k].call
                  /\ history[k].call.name \in {"TypeError", "URIError"}
                  /\ history[k].request = 0
           /\ ~history[k].call.threw => Len(history[k].call.header) > 0
    /\ Len(ops) = Len(RequestCalls)
    /\ \A k \in 1..Len(ops) :
           IF RequestCalls[k].call.threw
           THEN /\ ops[k].state = "rejected"
                /\ ops[k].error.name = RequestCalls[k].call.name
                /\ ops[k].request = 0
           ELSE /\ ops[k].request \in 1..Len(requests)
                /\ requests[ops[k].request].Authorization = RequestCalls[k].call.header
    /\ Len(requests) = Len(SelectSeq(RequestCalls, LAMBDA h : ~h.call.threw))
    /\ Len(net) = Len(requests)
    /\ (call.made /\ call.threw) => thrown = [threw |-> TRUE, name |-> call.name]
    /\ (call.made /\ ~call.threw) => thrown = NoError

\* makeNetSuiteRequest failed on a restletUrl that does not parse: its
\* promise is rejected and nothing was sent; the call after it, on the same
\* downloader with a URL that parses, returned a header
C18_Witness ==
    /\ Len(history) = 2
    /\ history[1].who = "makeNetSuiteRequest"
    /\ history[1].call.url = Str("nourl")
    /\ history[1].call.threw
    /\ history[1].call.name = "TypeError"
    /\ ops[1].state = "rejected"
    /\ requests = << >>
    /\ history[2].who = "generateOAuthHeader"
    /\ history[2].call.url = RestletUrl
    /\ ~history[2].call.threw
    /\ SubSeq(history[2].call.header, 1, 6) = Str("OAuth ")

\* a call failed because the consumer secret cannot be percent-encoded
C18_WitnessEncoding ==
    /\ Len(history) >= 1
    /\ history[1].call.threw
    /\ history[1].call.name = "URIError"
    /\ history[1].call.url = RestletUrl
    /\ requests = << >>


(***************************************************************************)
(* C19                                                                     *)
(***************************************************************************)
\* request i has been handed to https.request and has not ended or failed
InFlight(i) == i \in 1..Len(net) /\ net[i].phase \in {"sent", "receiving"}

\* no handler of the request of the signing call made last has run yet, or
\* the call was made for no request: every call is in such a state right
\* after it was made
LastCallFresh ==
    /\ history # << >>
    /\ \/ history[Len(history)].request = 0
       \/ net[history[Len(history)].request].phase = "sent"

\* the signing call made last computed what it would compute alone from its
\* own method, URL and readings of the clock and the random source
LastCallAlone == LastCallFresh => history[Len(history)].call = Alone(history[Len(history)])

\* what one step may do to the signing calls and the requests: at most one
\* new call, a new request only with a new call and carrying its header,
\* and the locals of the calls made before and the requests sent before
\* stay as they were
IsolatedStep ==
    /\ Len(history') \in {Len(history), Len(history) + 1}
    /\ \A k \in 1..Len(history) : history'[k] = history[k]
    /\ Len(requests') \in {Len(requests), Len(requests) + 1}
    /\ \A i \in 1..Len(requests) : requests'[i] = requests[i]
    /\ Len(requests') > Len(requests) =>
           /\ Len(history') > Len(history)
           /\ requests'[Len(requests')].Authorization = history'[Len(history')].call.header

ZeroLogs ==
    {Success(<< >>), JObj(("success" :> JBool(TRUE)) @@ ("message" :> JStr(Str("ok"))))}

\* the response to the request of runDailyAnalysis has ended and its body
\* was the JSON text of a success with zero log files
AnsweredZeroLogs ==
    /\ Len(ops) = 1
    /\ ops[1].name = "runDailyAnalysis"
    /\ Len(net) = 1
    /\ net[1].phase = "ended"
    /\ \E v \in ZeroLogs : net[1].data = stringify(v)

\* the days on which a report can be written
ReportDays == {dateOf(now) : now \in LaterClock}

\* C20: when the RESTlet answers success with zero log files, the run
\* writes the no-logs report, hands nothing to the Gemini analyser, writes
\* no system error report, and completes without error (exit code 0).
C20_NoLogsRunCompletes ==
    AnsweredZeroLogs =>
        /\ \E today \in ReportDays : noLogsReportPath(today) \in DOMAIN disk.files
        /\ analysed = << >>
        /\ \A today \in ReportDays : errorReportPath(today) \notin DOMAIN disk.files
        /\ ops[1].state = "fulfilled"
        /\ exit = Exited(0)

\* the RESTlet answered success with an empty logFiles array: the run was
\* rejected with a TypeError, wrote the system error report and no no-logs
\* report, and the process exited with code 1
C20_Witness ==
    /\ AnsweredZeroLogs
    /\ net[1].data = stringify(Success(<< >>))
    /\ ops[1].state = "rejected"
    /\ ops[1].error.name = "TypeError"
    /\ \E today \in ReportDays : errorReportPath(today) \in DOMAIN disk.files
    /\ \A today \in ReportDays : noLogsReportPath(today) \notin DOMAIN disk.files
    /\ analysed = << >>
    /\ exit = Exited(1)


(***************************************************************************)
(* C21                                                                     *)
(***************************************************************************)
\* the one run of run-analysis.js has ended: its promise is settled
RunSettled ==
    /\ Len(ops) = 1
    /\ ops[1].name = "runDailyAnalysis"
    /\ ops[1].state # "pending"

\* how the request of the run ended: signing threw, the network failed, or
\* the response ended with the data received
RunOutcome ==
    IF ops[1].request = 0 THEN Exception(call.name, "generateOAuthHeader")
    ELSE IF net[1].phase = "failed" THEN Exception("Error", "Network error")
    ELSE endOutcome(net[1].data)

\* how the download step of the run ended, on the disk the run started with
DownloadStep == downloadOutcome(RunOutcome, ops[1].today, NoFiles)

\* a system error report that carries the message of error is on the disk
ErrorReported(error) ==
    \E today \in ReportDays :
        /\ errorReportPath(today) \in DOMAIN disk.files
        /\ disk.files[errorReportPath(today)].message = error.message

\* C21: whenever the download step of runDailyAnalysis fails, the system
\* error report is on the disk when the failure reaches the caller, the
\* error the caller gets is the one the step threw, and the process exits
\* with code 1; the process exits with code 0 only if no step failed.
C21_FailureReportedAndRethrown ==
    RunSettled =>
        /\ DownloadStep.threw =>
               /\ ErrorReported(DownloadStep)
               /\ ops[1].state = "rejected"
               /\ ops[1].error = [name |-> DownloadStep.name, message |-> DownloadStep.message]
               /\ exit = Exited(1)
        /\ exit = Exited(0) => ~DownloadStep.threw

\* the response listed a log file named ../errors and then null: the
\* download wrote the file errors, then threw TypeError; the error report
\* could not be written under errors, the run was rejected with the error of
\* that write, and no system error report exists
C21_Witness ==
    /\ RunSettled
    /\ Len(net) = 1
    /\ net[1].data = stringify(Success(<<LogErrors, JNull>>))
    /\ DownloadStep.threw
    /\ DownloadStep.name = "TypeError"
    /\ errorsDirOf \in DOMAIN disk.files
    /\ ops[1].state = "rejected"
    /\ ops[1].error = [name |-> "Error", message |-> "writeFileSync"]
    /\ \A today \in ReportDays : errorReportPath(today) \notin DOMAIN disk.files
    /\ exit = Exited(1)

\* the download step failed and the report could be written: it is on the
\* disk, the caller got the error of the step, and the process exited with 1
C21_WitnessReported ==
    /\ RunSettled
    /\ DownloadStep.threw
    /\ ErrorReported(DownloadStep)
    /\ ops[1].error = [name |-> DownloadStep.name, message |-> DownloadStep.message]
    /\ exit = Exited(1)


(***************************************************************************)
(* C23                                                                     *)
(***************************************************************************)
\* in this step the response to request i ends with a body that parses, and
\* the operation awaiting it is a call of downloadTodaysDueDateLogs
Answered(i) ==
    /\ i \in 1..Len(net)
    /\ net[i].phase = "receiving"
    /\ net'[i].phase = "ended"
    /\ ops[OpOf(i)].name = "downloadTodaysDueDateLogs"
    /\ ~endOutcome(net[i].data).threw

\* the response has a property named error, whatever its value
HasErrorField(response) == response.t = "object" /\ "error" \in DOMAIN response.o

\* the response has a property error whose value is truthy
HasError(response) == HasErrorField(response) /\ Truthy(response.o["error"])

\* response.success === true
SaysSuccess(response) ==
    /\ response.t = "object"
    /\ "success" \in DOMAIN response.o
    /\ response.o["success"] = JBool(TRUE)

\* the call k answered with response returned a result only if the response
\* was accepted, and threw without touching the disk if it was not
ReturnsOnlyIf(k, response, accepted) ==
    /\ ops'[k].state # "pending"
    /\ ops'[k].state = "fulfilled" => accepted
    /\ ~accepted => ops'[k].state = "rejected" /\ disk' = disk

\* C23 as claimed: downloadTodaysDueDateLogs returns a result only when the
\* response has no error field and success === true; for every other
\* response it throws, and the call has then written no file and created no
\* directory.
C23_ReturnsOnlyWithoutErrorField ==
    [][\A i \in 1..Len(net) :
           Answered(i) =>
               ReturnsOnlyIf(OpOf(i), endOutcome(net[i].data).value,
                             /\ ~HasErrorField(endOutcome(net[i].data).value)
                             /\ SaysSuccess(endOutcome(net[i].data).value))]_vars

\* C23, amended: downloadTodaysDueDateLogs returns a result only when the
\* error property of the response is absent or falsy and success === true;
\* for every other response it throws, and the call has then written no
\* file and created no directory.
C23_ReturnsOnlyWithoutError ==
    [][\A i \in 1..Len(net) :
           Answered(i) =>
               ReturnsOnlyIf(OpOf(i), endOutcome(net[i].data).value,
                             /\ ~HasError(endOutcome(net[i].data).value)
                             /\ SaysSuccess(endOutcome(net[i].data).value))]_vars

\* the response that carried error: null and success: true was returned
\* from, after the logs directory was created
C23_Witness ==
    /\ Len(ops) = 1
    /\ ops[1].name = "downloadTodaysDueDateLogs"
    /\ Len(net) = 1
    /\ net[1].phase = "ended"
    /\ ~endOutcome(net[1].data).threw
    /\ HasErrorField(endOutcome(net[1].data).value)
    /\ ~HasError(endOutcome(net[1].data).value)
    /\ ops[1].state = "fulfilled"
    /\ logsDirOf \in disk.dirs

\* the response whose success was the string "true" was thrown on, with the
\* disk as it was
C23_WitnessRefused ==
    /\ Len(ops) = 1
    /\ ops[1].name = "downloadTodaysDueDateLogs"
    /\ Len(net) = 1
    /\ net[1].phase = "ended"
    /\ net[1].data = stringify(JObj("success" :> JStr(Str("true"))))
    /\ ops[1].state = "rejected"
    /\ disk = NoFiles


(***************************************************************************)
(* C28                                                                     *)
(***************************************************************************)
\* path lies inside directory dir: it is dir followed by / and more
InsideDir(dir, path) ==
    /\ Len(path) > Len(dir) + 1
    /\ SubSeq(path, 1, Len(dir) + 1) = dir \o Str("/")

\* C28: every file downloadTodaysDueDateLogs has written lies inside the
\* logs directory under the current working directory, whatever the name
\* fields of the entries of response.logFiles contain.
C28_WritesInsideLogs == \A path \in DOMAIN disk.files : InsideDir(logsDirOf, path)

\* the response listed an entry without a name and one named ../../x.txt:
\* the first was written inside logs under its default name, the second
\* two directories above logs
C28_Witness ==
    /\ Len(ops) = 1
    /\ ops[1].name = "downloadTodaysDueDateLogs"
    /\ ops[1].state = "fulfilled"
    /\ net[1].data = stringify(Success(<<LogNoName, LogOutside>>))
    /\ pathJoin(logsDirOf, defaultName(ops[1].today, 1)) \in DOMAIN disk.files
    /\ Str("/x.txt") \in DOMAIN disk.files
    /\ ~InsideDir(logsDirOf, Str("/x.txt"))


(***************************************************************************)
(* C24                                                                     *)
(***************************************************************************)
\* the k-th call of makeNetSuiteRequest has been made and is not settled
Unsettled(k) == k \in 1..Len(ops) /\ ops[k].state = "pending"

\* the promise of the k-th call is resolved or rejected
IsSettled(k) == k \in 1..Len(ops) /\ ops[k].state \in {"fulfilled", "rejected"}

\* C24: every call of makeNetSuiteRequest eventually settles: its promise
\* is resolved with the parsed body or rejected, also when the server
\* accepts the connection and never sends a response (rejected once the
\* 30 seconds of the timeout have passed).
C24_EveryRequestSettles == \A k \in 1..MaxRequests : Unsettled(k) ~> IsSettled(k)

\* what the code does give: a call whose response has begun settles
AnsweredRequestsSettle ==
    \A k \in 1..MaxRequests :
        (Unsettled(k) /\ net[ops[k].request].phase = "receiving") ~> IsSettled(k)

\* the 30 seconds have passed without a response: the request is idle and
\* the promise of the call is still pending
C24_Witness ==
    /\ Len(ops) = 1
    /\ ops[1].name = "makeNetSuiteRequest"
    /\ Len(net) = 1
    /\ net[1].phase = "idle"
    /\ ops[1].state = "pending"

\* a call whose response came to its end is settled
C24_WitnessAnswered ==
    /\ Len(ops) = 1
    /\ ops[1].name = "makeNetSuiteRequest"
    /\ Len(net) = 1
    /\ net[1].phase = "ended"
    /\ ops[1].state \in {"fulfilled", "rejected"}


(***************************************************************************)
(* C22                                                                     *)
(***************************************************************************)
\* analyzeLogFiles has returned
AnalysisReturned == Len(ops) = 1 /\ ops[1].name = "analyzeLogFiles" /\ ops[1].state = "fulfilled"

\* some result says its log has errors
SomeHasErrors(results) == \E i \in 1..Len(results) : results[i].hasErrors

\* the daily summary on the disk
DailySummary == disk.files[CHOOSE path \in {summaryPath(today) : today \in ReportDays} : TRUE]

\* the console summary and the daily summary both say that errors were found
SaidToHaveErrors(results) ==
    /\ consoleSummary(results).totalErrors > 0
    /\ consoleSummary(results).verdict # "NO ERRORS DETECTED"
    /\ DailySummary.totalErrors > 0
    /\ DailySummary.critical # "No critical issues detected today"
    /\ DailySummary.status # "SYSTEM STATUS: NORMAL"

\* C22: a result with hasErrors = true has errorCount >= 1, and when at
\* least one result has hasErrors = true the total error count is greater
\* than zero and neither the console summary nor the daily summary says
\* that no errors or no critical issues were detected.
C22_ErrorsAreReported ==
    AnalysisReturned =>
        /\ \A i \in 1..Len(ops[1].results) :
               ops[1].results[i].hasErrors => ops[1].results[i].errorCount >= 1
        /\ SomeHasErrors(ops[1].results) => SaidToHaveErrors(ops[1].results)

\* the AI answered 'SCRIPT ERROR: Error x' for the one log file: the result
\* has hasErrors = true and errorCount = 0, its report says ERRORS DETECTED,
\* and the console and the daily summary say that nothing was found
C22_Witness ==
    /\ AnalysisReturned
    /\ Len(ops[1].results) = 1
    /\ ops[1].results[1].aiResponse = Str("SCRIPT ERROR: Error x")
    /\ ops[1].results[1].hasErrors
    /\ ops[1].results[1].errorCount = 0
    /\ \E today \in ReportDays : disk.files[outputPath(today)].report = "ERRORS DETECTED"
    /\ consoleSummary(ops[1].results).verdict = "NO ERRORS DETECTED"
    /\ DailySummary.systems[1].status = "ERRORS FOUND"
    /\ DailySummary.critical = "No critical issues detected today"
    /\ DailySummary.status = "SYSTEM STATUS: NORMAL"


(***************************************************************************)
(* C25                                                                     *)
(***************************************************************************)
\* analyzeLogFiles was called with an array of log files
AnalysingFiles ==
    /\ Len(ops) = 1
    /\ ops[1].name = "analyzeLogFiles"
    /\ analysed[1].t = "array"

\* the log file at place i cannot be read: its path is not on the disk
ReadFails(i) == Get(analysed[1].a[i], "path").s \notin DOMAIN disk.files

\* the requests made so far for the files up to place i
RequestsUpTo(trace, i) ==
    Cardinality({n \in 1..Len(trace) : trace[n].e = "request" /\ trace[n].file <= i})

\* callGeminiAPI was called for the file at place i
Asked(trace, i) == \E n \in 1..Len(trace) : trace[n].e = "request" /\ trace[n].file = i

\* the call of the AI service for request j failed: the connection failed,
\* or the response ended and the handler rejected
AiFails(j) ==
    \/ net[j].phase = "failed"
    \/ net[j].phase = "ended" /\ geminiEnd(net[j].status, net[j].data).threw

\* reading the file at place i or the call of the AI service for it failed
ProcessingFailed(trace, i) ==
    \/ ReadFails(i) /\ i <= RequestsUpTo(trace, i) + Cardinality({j \in 1..i : ReadFails(j)})
                    /\ \A j \in 1..(i - 1) : ReadFails(j) \/ net[RequestsUpTo(trace, j)].phase \in {"failed", "ended"}
    \/ Asked(trace, i) /\ AiFails(RequestsUpTo(trace, i))

\* a fallback report was written for the file at place i
FallbackWritten(trace, i) == \E n \in 1..Len(trace) : trace[n].e = "fallback" /\ trace[n].file = i

\* C25: processLogFile never rejects when reading the log file or calling
\* the AI service fails: it writes a fallback report and returns a result
\* with hasErrors = false and errorCount = 0, and analyzeLogFiles goes on
\* with the next file.
C25_FailuresFallBack ==
    AnalysingFiles =>
        /\ ops[1].state # "rejected"
        /\ \A i \in 1..Len(analysed[1].a) :
               ProcessingFailed(ops[1].trace, i) =>
                   /\ i <= Len(ops[1].results)
                   /\ ops[1].results[i].hasErrors = FALSE
                   /\ ops[1].results[i].errorCount = 0
                   /\ ops[1].results[i].logFile = analysed[1].a[i]
                   /\ FallbackWritten(ops[1].trace, i)
                   /\ \/ ops[1].state = "fulfilled" /\ Len(ops[1].results) = Len(analysed[1].a)
                      \/ ops[1].state = "pending" /\ ops[1].i > i /\ Asked(ops[1].trace, ops[1].i)

\* the first file could not be read and the request for the second failed:
\* two fallback reports were written, both results say no errors, and
\* analyzeLogFiles returned
C25_Witness ==
    /\ AnalysingFiles
    /\ analysed[1] = JArr(<<FileGone, FileA>>)
    /\ ops[1].state = "fulfilled"
    /\ ReadFails(1)
    /\ Len(net) = 1
    /\ AiFails(1)
    /\ FallbackWritten(ops[1].trace, 1)
    /\ FallbackWritten(ops[1].trace, 2)
    /\ Len(ops[1].results) = 2
    /\ ~ops[1].results[1].hasErrors
    /\ ~ops[1].results[2].hasErrors


(***************************************************************************)
(* C26                                                                     *)
(***************************************************************************)
\* analyzeLogFiles returned, and all its reports are of one day
CompletedInOneDay ==
    /\ AnalysingFiles
    /\ ops[1].state = "fulfilled"
    /\ \A i, j \in 1..Len(ops[1].results) :
           ops[1].results[i].outputFile = ops[1].results[j].outputFile

\* the errors directory holds a report or a fallback report whose source
\* file is the log file at place i
HoldsReportOf(i) ==
    \E p \in DOMAIN disk.files :
        /\ InsideDir(errorsDirOf, p)
        /\ disk.files[p].report \in {"ERRORS DETECTED", "NO ERRORS FOUND", "AI ANALYSIS FAILED"}
        /\ disk.files[p].source = Get(analysed[1].a[i], "name")

\* C26: after analyzeLogFiles completes over N log files of the same day,
\* the errors directory holds a report for each of the N files: no report is
\* overwritten or lost when a later log file is processed.
C26_EveryReportKept ==
    CompletedInOneDay => \A i \in 1..Len(analysed[1].a) : HoldsReportOf(i)

\* two log files were analysed on one day, a report was written for each at
\* the same path, and the errors directory holds the report of the second
\* file only
C26_Witness ==
    /\ CompletedInOneDay
    /\ analysed[1] = JArr(<<FileA, FileB>>)
    /\ \E m, n \in 1..Len(ops[1].trace) :
           /\ m < n
           /\ ops[1].trace[m].e = "report" /\ ops[1].trace[m].file = 1
           /\ ops[1].trace[n].e = "report" /\ ops[1].trace[n].file = 2
           /\ ops[1].trace[m].path = ops[1].trace[n].path
    /\ HoldsReportOf(2)
    /\ ~HoldsReportOf(1)


(***************************************************************************)
(* C27                                                                     *)
(***************************************************************************)
\* the report or the fallback report of the file at place i was written
\* before place n of the trace
ReportedBefore(trace, i, n) ==
    \E m \in 1..(n - 1) : trace[m].e \in {"report", "fallback"} /\ trace[m].file = i

\* the places of the trace with an event of kind e for file i
Events(trace, e, i) == {n \in 1..Len(trace) : trace[n].e = e /\ trace[n].file = i}

\* the requests to the AI service that have not ended
OpenRequests == {j \in 1..Len(net) : net[j].phase \in {"sent", "idle", "receiving"}}

\* the files are processed one at a time in input order: the request for a
\* file is made after the reports of all files before it were written, no
\* file is asked about or reported twice, and one request at most is open
OneAtATime(trace) ==
    /\ \A n \in 1..Len(trace) :
           trace[n].e \in {"request", "report", "fallback"} =>
               \A j \in 1..(trace[n].file - 1) : ReportedBefore(trace, j, n)
    /\ \A i \in 1..Len(analysed[1].a) :
           /\ Cardinality(Events(trace, "request", i)) <= 1
           /\ Cardinality(Events(trace, "report", i) \cup Events(trace, "fallback", i)) <= 1
    /\ Cardinality(OpenRequests) <= 1

\* the results so far are those of the first files of the input, in order
ResultsInOrder(results, trace) ==
    /\ Len(results) <= Len(analysed[1].a)
    /\ \A i \in 1..Len(results) :
           /\ results[i].logFile = analysed[1].a[i]
           /\ ReportedBefore(trace, i, Len(trace) + 1)

\* the daily summary is written once, as the last thing, when every file
\* has its result, and not before
SummaryOnceAtEnd(state, results, trace) ==
    IF state = "fulfilled"
    THEN /\ Len(results) = Len(analysed[1].a)
         /\ Events(trace, "summary", 0) = {Len(trace)}
         /\ trace[Len(trace)].path \in DOMAIN disk.files
         /\ disk.files[trace[Len(trace)].path].analyzed = Len(analysed[1].a)
    ELSE Events(trace, "summary", 0) = {}

\* C27: analyzeLogFiles processes the log files one at a time in input order
\* (the AI call for file i+1 starts only after the report of file i has
\* been written), returns exactly one result per input file in the same
\* order, and writes the daily summary exactly once, only after the last
\* file has been processed.
C27_InOrderSummaryOnce ==
    (AnalysingFiles /\ ops[1].state # "rejected") =>
        /\ OneAtATime(ops[1].trace)
        /\ ResultsInOrder(ops[1].results, ops[1].trace)
        /\ SummaryOnceAtEnd(ops[1].state, ops[1].results, ops[1].trace)

\* two files were analysed by the AI service: request, report, request,
\* report, summary
C27_Witness ==
    /\ AnalysingFiles
    /\ ops[1].state = "fulfilled"
    /\ analysed[1] = JArr(<<FileA, FileB>>)
    /\ Len(ops[1].trace) = 5
    /\ ops[1].trace[1].e = "request" /\ ops[1].trace[2].e = "report"
    /\ ops[1].trace[3].e = "request" /\ ops[1].trace[4].e = "report"
    /\ ops[1].trace[5].e = "summary"
    /\ ops[1].results[1].logFile = FileA
    /\ ops[1].results[2].logFile = FileB

\* the second file is being analysed: the report of the first is written
\* and no summary yet
C27_WitnessPending ==
    /\ AnalysingFiles
    /\ ops[1].state = "pending"
    /\ ops[1].i = 2
    /\ Len(ops[1].results) = 1
    /\ OpenRequests = {2}

====
